---- MODULE Spec2Model ----
(***************************************************************************)
(* Sales analytics pipeline: parse_transactions (utils/file_handler.py),   *)
(* validate_and_filter and the aggregates (utils/data_processor.py).       *)
(*                                                                         *)
(* Python values are modelled with their dynamic type: a value is a record *)
(* [k, n, s] whose kind k is "missing" (the key is absent from the dict),  *)
(* "none", "int", "float" or "str".  Numbers are exact decimals held in    *)
(* hundredths (n = value * Scale); text is a sequence of one-character     *)
(* strings.  The sample quantities and prices carry at most one decimal,   *)
(* so every product is exact in hundredths.  NaN and infinities are not    *)
(* part of the value domain.                                               *)
(***************************************************************************)
EXTENDS Integers, Sequences, FiniteSets, TLC

\* Longest list of directly supplied records / of raw lines.
MaxLen == 2
MaxLines == 2

\* Longest list handed to the product, customer and daily aggregates.
MaxSales == 3

\* Longest list handed to enrich_sales_data.
MaxOrders == 2

\* Most lines of the sales data file, the header row included.
MaxFileLines == 3

\* round(x, 2): two decimal places, hence hundredths.
Decimals == 2
Scale == 10 ^ Decimals

----------------------------------------------------------------------------
(* Python values *)

Missing == [k |-> "missing", n |-> 0, s |-> <<>>]
None == [k |-> "none", n |-> 0, s |-> <<>>]
IntV(i) == [k |-> "int", n |-> i * Scale, s |-> <<>>]
FloatV(h) == [k |-> "float", n |-> h, s |-> <<>>]
StrV(t) == [k |-> "str", n |-> 0, s |-> t]

IsNum(v) == v.k \in {"int", "float"}

\* bool(v): None, 0, 0.0 and '' are falsy.
Truthy(v) ==
  CASE v.k = "str" -> v.s # <<>>
    [] v.k \in {"int", "float"} -> v.n # 0
    [] OTHER -> FALSE

----------------------------------------------------------------------------
(* Text: str methods used by the code *)

\* Characters in ascending code-point order.
Chars == <<" ", ",", "-", ".",
           "0", "1", "2", "3", "4", "5", "6", "7", "8", "9",
           "A", "B", "C", "D", "E", "F", "G", "H", "I", "J", "K", "L", "M",
           "N", "O", "P", "Q", "R", "S", "T", "U", "V", "W", "X", "Y", "Z",
           "a", "b", "c", "d", "e", "f", "g", "h", "i", "j", "k", "l", "m",
           "n", "o", "p", "q", "r", "s", "t", "u", "v", "w", "x", "y", "z",
           "|">>

Ord(c) == CHOOSE i \in 1..Len(Chars) : Chars[i] = c

Whitespace == {" "}
Digits == {"0", "1", "2", "3", "4", "5", "6", "7", "8", "9"}
DigitVal(c) == Ord(c) - Ord("0")

UpperCase == <<"A", "B", "C", "D", "E", "F", "G", "H", "I", "J", "K", "L", "M",
               "N", "O", "P", "Q", "R", "S", "T", "U", "V", "W", "X", "Y", "Z">>
LowerCase == <<"a", "b", "c", "d", "e", "f", "g", "h", "i", "j", "k", "l", "m",
               "n", "o", "p", "q", "r", "s", "t", "u", "v", "w", "x", "y", "z">>

\* str.lower() on one character: 'A'..'Z' map to 'a'..'z'.
LowerChar(c) ==
  IF \E i \in 1..Len(UpperCase) : UpperCase[i] = c
  THEN LowerCase[CHOOSE i \in 1..Len(UpperCase) : UpperCase[i] = c]
  ELSE c

Lower(s) == [i \in 1..Len(s) |-> LowerChar(s[i])]

\* str.replace(a, b) for single characters; b = <<>> removes a.
RECURSIVE Replace(_, _, _)
Replace(s, a, b) ==
  IF s = <<>> THEN <<>>
  ELSE (IF Head(s) = a THEN b ELSE <<Head(s)>>) \o Replace(Tail(s), a, b)

RECURSIVE LStrip(_)
LStrip(s) ==
  IF s # <<>> /\ Head(s) \in Whitespace THEN LStrip(Tail(s)) ELSE s

RECURSIVE RStrip(_)
RStrip(s) ==
  IF s # <<>> /\ s[Len(s)] \in Whitespace
  THEN RStrip(SubSeq(s, 1, Len(s) - 1)) ELSE s

\* str.strip()
Strip(s) == RStrip(LStrip(s))

\* str.split(sep): the pieces between occurrences of sep (always >= 1 piece).
RECURSIVE Split(_, _)
Split(s, sep) ==
  IF \A i \in 1..Len(s) : s[i] # sep THEN <<s>>
  ELSE LET p == CHOOSE i \in 1..Len(s) :
                  s[i] = sep /\ \A j \in 1..(i - 1) : s[j] # sep
       IN <<SubSeq(s, 1, p - 1)>> \o Split(SubSeq(s, p + 1, Len(s)), sep)

\* ' '.join(s.split()): words separated by single spaces, no outer blanks.
RECURSIVE JoinWords(_)
JoinWords(s) ==
  LET t == LStrip(s) IN
  IF t = <<>> THEN <<>>
  ELSE LET e == IF \A i \in 1..Len(t) : t[i] \notin Whitespace
                THEN Len(t) + 1
                ELSE CHOOSE i \in 1..Len(t) :
                       t[i] \in Whitespace
                       /\ \A j \in 1..(i - 1) : t[j] \notin Whitespace
           rest == JoinWords(SubSeq(t, e, Len(t)))
       IN SubSeq(t, 1, e - 1) \o (IF rest = <<>> THEN <<>> ELSE <<" ">> \o rest)

\* Lexicographic order of str by code point.
RECURSIVE StrLess(_, _)
StrLess(a, b) ==
  IF b = <<>> THEN FALSE
  ELSE IF a = <<>> THEN TRUE
  ELSE IF Head(a) # Head(b) THEN Ord(Head(a)) < Ord(Head(b))
  ELSE StrLess(Tail(a), Tail(b))

\* sorted(set of str)
RECURSIVE SortedStrs(_)
SortedStrs(S) ==
  IF S = {} THEN <<>>
  ELSE LET m == CHOOSE x \in S : \A y \in S \ {x} : StrLess(x, y)
       IN <<m>> \o SortedStrs(S \ {m})

----------------------------------------------------------------------------
(* Numeric conversions *)

RECURSIVE ParseNat(_)
ParseNat(s) ==
  IF s = <<>> THEN 0 ELSE ParseNat(SubSeq(s, 1, Len(s) - 1)) * 10 + DigitVal(s[Len(s)])

AllDigits(s) == \A i \in 1..Len(s) : s[i] \in Digits

\* Fraction digits as hundredths: "5" -> 50, "25" -> 25; further digits are
\* below the resolution of the model.
FracHundredths(f) ==
  IF f = <<>> THEN 0
  ELSE IF Len(f) = 1 THEN DigitVal(f[1]) * 10
  ELSE DigitVal(f[1]) * 10 + DigitVal(f[2])

\* ValueError of int(text) / float(text).
NotANumber == [ok |-> FALSE, n |-> 0]

Negated(r) == [ok |-> r.ok, n |-> -r.n]

\* Digits before and after the decimal point; at least one digit in all.
ParseDecimal(ip, fp) ==
  IF AllDigits(ip) /\ AllDigits(fp) /\ Len(ip) + Len(fp) > 0
  THEN [ok |-> TRUE, n |-> ParseNat(ip) * Scale + FracHundredths(fp)]
  ELSE NotANumber

ParseUnsigned(parts) ==
  IF Len(parts) > 2 THEN NotANumber
  ELSE ParseDecimal(parts[1], IF Len(parts) = 2 THEN parts[2] ELSE <<>>)

ParseSigned(t) ==
  IF t # <<>> /\ Head(t) = "-"
  THEN Negated(ParseUnsigned(Split(Tail(t), ".")))
  ELSE ParseUnsigned(Split(t, "."))

\* float(text): optional blanks, optional sign, digits with an optional
\* fraction.  ok = FALSE is ValueError.
ParseFloat(text) == ParseSigned(Strip(text))

ParseDigits(u) ==
  IF u # <<>> /\ AllDigits(u) THEN [ok |-> TRUE, n |-> ParseNat(u) * Scale]
  ELSE NotANumber

ParseIntSigned(t) ==
  IF t # <<>> /\ Head(t) = "-" THEN Negated(ParseDigits(Tail(t))) ELSE ParseDigits(t)

\* int(text): optional blanks, optional sign, digits only.
ParseInt(text) == ParseIntSigned(Strip(text))

\* Faulty variant of Trunc: rounds toward minus infinity (math.floor).
Trunc_floor(n) == (n \div Scale) * Scale

\* int(x) of a number truncates toward zero.
Trunc(n) == IF n >= 0 THEN (n \div Scale) * Scale ELSE -(((-n) \div Scale) * Scale)

\* int(v): ok = FALSE is ValueError (text) or TypeError (None).
ToInt(v) ==
  CASE v.k = "int" -> [ok |-> TRUE, n |-> v.n]
    [] v.k = "float" -> [ok |-> TRUE, n |-> Trunc(v.n)]
    [] v.k = "str" -> ParseInt(v.s)
    [] OTHER -> [ok |-> FALSE, n |-> 0]

\* float(v)
ToFloat(v) ==
  CASE v.k \in {"int", "float"} -> [ok |-> TRUE, n |-> v.n]
    [] v.k = "str" -> ParseFloat(v.s)
    [] OTHER -> [ok |-> FALSE, n |-> 0]

\* a * b on two numbers held in hundredths.
MulN(a, b) == (a \div Scale) * b + ((a % Scale) * b) \div Scale

RECURSIVE Repeat(_, _)
Repeat(s, i) == IF i <= 0 THEN <<>> ELSE s \o Repeat(s, i - 1)

\* The * operator.  ok = FALSE is TypeError.
Mul(a, b) ==
  CASE IsNum(a) /\ IsNum(b) ->
         [ok |-> TRUE,
          v |-> [k |-> IF a.k = "int" /\ b.k = "int" THEN "int" ELSE "float",
                 n |-> MulN(a.n, b.n), s |-> <<>>]]
    [] a.k = "str" /\ b.k = "int" -> [ok |-> TRUE, v |-> StrV(Repeat(a.s, b.n \div Scale))]
    [] a.k = "int" /\ b.k = "str" -> [ok |-> TRUE, v |-> StrV(Repeat(b.s, a.n \div Scale))]
    [] OTHER -> [ok |-> FALSE, v |-> None]

----------------------------------------------------------------------------
(* validate_and_filter *)

required_fields == <<"TransactionID", "Date", "ProductID", "ProductName",
                     "Quantity", "UnitPrice", "CustomerID", "Region">>

\* One error message: the text, the field of a "Missing <field>" message and
\* the value of a "(got <value>)" suffix.
Msg(m, f, g) == [msg |-> m, field |-> f, got |-> g]

\* transaction['Quantity'] * transaction['UnitPrice']; an absent key is the
\* KeyError branch (Amount = 0); ok = FALSE is the TypeError that is not caught.
AmountOf(t) ==
  IF t.Quantity.k = "missing" \/ t.UnitPrice.k = "missing"
  THEN [ok |-> TRUE, v |-> IntV(0)]
  ELSE Mul(t.Quantity, t.UnitPrice)

\* str(v).startswith(c), for the values that reach the check (truthy ones).
StartsWith(v, c) == v.k = "str" /\ v.s # <<>> /\ v.s[1] = c

\* `field not in transaction or not transaction[field]`
Unset(t, field) == t[field].k = "missing" \/ ~Truthy(t[field])

\* lines 552-564: the three ID formats.
id_messages(t) ==
  (IF StartsWith(t.TransactionID, "T") THEN <<>>
   ELSE <<Msg("TransactionID must start with 'T'", "", 0)>>)
  \o (IF StartsWith(t.ProductID, "P") THEN <<>>
      ELSE <<Msg("ProductID must start with 'P'", "", 0)>>)
  \o (IF StartsWith(t.CustomerID, "C") THEN <<>>
      ELSE <<Msg("CustomerID must start with 'C'", "", 0)>>)

\* lines 567-574, q = int(transaction['Quantity'])
quantity_messages(q) ==
  IF ~q.ok THEN <<Msg("Invalid Quantity value", "", 0)>>
  ELSE IF q.n <= 0 THEN <<Msg("Quantity must be > 0", "", q.n)>>
  ELSE <<>>

\* lines 577-584, p = float(transaction['UnitPrice'])
price_messages(p) ==
  IF ~p.ok THEN <<Msg("Invalid UnitPrice value", "", 0)>>
  ELSE IF p.n <= 0 THEN <<Msg("UnitPrice must be > 0", "", p.n)>>
  ELSE <<>>

\* The messages collected for one transaction; <<>> when it is valid.  The
\* required-field loop stops at the first field that is absent or falsy.
error_messages(t) ==
  IF \E i \in 1..Len(required_fields) : Unset(t, required_fields[i])
  THEN <<Msg("Missing",
             required_fields[CHOOSE i \in 1..Len(required_fields) :
                               /\ Unset(t, required_fields[i])
                               /\ \A j \in 1..(i - 1) : ~Unset(t, required_fields[j])],
             0)>>
  ELSE id_messages(t) \o quantity_messages(ToInt(t.Quantity))
       \o price_messages(ToFloat(t.UnitPrice))

\* min(amounts) / max(amounts) over numbers.
MinN(S) == CHOOSE x \in S : \A y \in S : x <= y
MaxN(S) == CHOOSE x \in S : \A y \in S : x >= y

\* Faulty variant of AmountIncluded: an amount equal to a bound is excluded.
AmountIncluded_strict(t, min_amount, max_amount) ==
  /\ ~(min_amount.k # "none" /\ t.Amount.n <= min_amount.n)
  /\ ~(max_amount.k # "none" /\ t.Amount.n >= max_amount.n)

\* amount < min_amount or amount > max_amount excludes the transaction.
AmountIncluded(t, min_amount, max_amount) ==
  /\ ~(min_amount.k # "none" /\ t.Amount.n < min_amount.n)
  /\ ~(max_amount.k # "none" /\ t.Amount.n > max_amount.n)

\* Faulty variant of filter_stages: the amount filter runs before the region filter.
filter_stages_amount_first(valid_transactions, region, min_amount, max_amount) ==
  LET amount_filtered ==
        IF min_amount.k # "none" \/ max_amount.k # "none"
        THEN SelectSeq(valid_transactions,
                       LAMBDA t : ~(min_amount.k # "none" /\ t.Amount.n < min_amount.n)
                                  /\ ~(max_amount.k # "none" /\ t.Amount.n > max_amount.n))
        ELSE valid_transactions
      region_filtered ==
        IF Truthy(region)
        THEN SelectSeq(amount_filtered, LAMBDA t : Lower(t.Region.s) = Lower(region.s))
        ELSE amount_filtered
  IN [valid |-> region_filtered,
      filtered_by_region |-> Len(amount_filtered) - Len(region_filtered),
      filtered_by_amount |-> Len(valid_transactions) - Len(amount_filtered)]

\* Step 3: the region filter, applied if region is truthy.
region_stage(valid_transactions, region) ==
  IF Truthy(region)
  THEN SelectSeq(valid_transactions, LAMBDA t : Lower(t.Region.s) = Lower(region.s))
  ELSE valid_transactions

\* Step 4: the amount filter, applied if either bound is not None.
amount_stage(region_filtered, min_amount, max_amount) ==
  IF min_amount.k # "none" \/ max_amount.k # "none"
  THEN SelectSeq(region_filtered, LAMBDA t : AmountIncluded(t, min_amount, max_amount))
  ELSE region_filtered

\* Faulty variant of stage_counts: the amount stage is counted against the
\* valid set instead of the output of the region stage.
stage_counts_from_start(valid_transactions, region_filtered, amount_filtered) ==
  [valid |-> amount_filtered,
   filtered_by_region |-> Len(valid_transactions) - Len(region_filtered),
   filtered_by_amount |-> Len(valid_transactions) - Len(amount_filtered)]

\* The surviving list with the number each stage removed.
stage_counts(valid_transactions, region_filtered, amount_filtered) ==
  [valid |-> amount_filtered,
   filtered_by_region |-> Len(valid_transactions) - Len(region_filtered),
   filtered_by_amount |-> Len(region_filtered) - Len(amount_filtered)]

amount_after_region(valid_transactions, region_filtered, min_amount, max_amount) ==
  stage_counts(valid_transactions, region_filtered,
               amount_stage(region_filtered, min_amount, max_amount))

\* Steps 3 and 4: the region filter, then the amount filter.
filter_stages(valid_transactions, region, min_amount, max_amount) ==
  amount_after_region(valid_transactions, region_stage(valid_transactions, region),
                      min_amount, max_amount)

NoSummary ==
  [total_input |-> 0, invalid |-> 0, filtered_by_region |-> 0,
   filtered_by_amount |-> 0, final_count |-> 0, available_regions |-> <<>>,
   amount_range |-> [min |-> 0, max |-> 0]]

\* The result of a call that raised: only the mutated input is observable.
Raised(exc, ts) ==
  [raised |-> exc, transactions |-> ts, valid |-> <<>>, invalid_count |-> 0,
   summary |-> NoSummary]

\* lines 513-519: Amount for every transaction up to the first one whose
\* product raises TypeError (not caught).
amount_loop(transactions) ==
  [i \in 1..Len(transactions) |->
     IF \A j \in 1..i : AmountOf(transactions[j]).ok
     THEN [transactions[i] EXCEPT !.Amount = AmountOf(transactions[i]).v]
     ELSE transactions[i]]

\* line 525
available_regions(ts) ==
  SortedStrs({ts[i].Region.s : i \in {j \in 1..Len(ts) : Truthy(ts[j].Region)}})

\* lines 526-532
amount_range(ts) ==
  IF ts = <<>> THEN [min |-> 0, max |-> 0]
  ELSE [min |-> MinN({ts[i].Amount.n : i \in 1..Len(ts)}),
        max |-> MaxN({ts[i].Amount.n : i \in 1..Len(ts)})]

\* lines 537-590
validation_loop(ts) ==
  [i \in 1..Len(ts) |-> [ts[i] EXCEPT !.ValidationError = error_messages(ts[i])]]

IsValid(t) == t.ValidationError = <<>>

IsInvalid(t) == t.ValidationError # <<>>

\* lines 635-658
returned(checked, staged, regions, range) ==
  [raised |-> "none",
   transactions |-> checked,
   valid |-> staged.valid,
   invalid_count |-> Len(SelectSeq(checked, IsInvalid)),
   summary |->
     [total_input |-> Len(checked),
      invalid |-> Len(SelectSeq(checked, IsInvalid)),
      filtered_by_region |-> staged.filtered_by_region,
      filtered_by_amount |-> staged.filtered_by_amount,
      final_count |-> Len(staged.valid),
      available_regions |-> regions,
      amount_range |-> range]]

\* lines 596-658: region.lower() of a valid record whose Region is not text
\* is AttributeError.
after_validation(checked, regions, range, region, min_amount, max_amount) ==
  IF Truthy(region) /\ \E i \in 1..Len(checked) :
                         IsValid(checked[i]) /\ checked[i].Region.k # "str"
  THEN Raised("AttributeError", checked)
  ELSE returned(checked,
                filter_stages(SelectSeq(checked, IsValid), region, min_amount, max_amount),
                regions, range)

\* lines 525-590: min/max of amounts that mix text and numbers is TypeError,
\* the :,.2f format of a text amount is ValueError.
after_amounts(ts, region, min_amount, max_amount) ==
  IF \E i \in 1..Len(ts) : ts[i].Amount.k = "str"
  THEN Raised(IF \A i \in 1..Len(ts) : ts[i].Amount.k = "str"
              THEN "ValueError" ELSE "TypeError", ts)
  ELSE after_validation(validation_loop(ts), available_regions(ts), amount_range(ts),
                        region, min_amount, max_amount)

validate_and_filter(transactions, region, min_amount, max_amount) ==
  IF \E i \in 1..Len(transactions) : ~AmountOf(transactions[i]).ok
  THEN Raised("TypeError", amount_loop(transactions))
  ELSE after_amounts(amount_loop(transactions), region, min_amount, max_amount)

----------------------------------------------------------------------------
(* parse_transactions *)

\* A transaction dict: the eight base keys, and the keys that
\* validate_and_filter adds (absent until then).
Transaction(tid, date, pid, pname, qty, price, cid, region) ==
  [TransactionID |-> tid, Date |-> date, ProductID |-> pid, ProductName |-> pname,
   Quantity |-> qty, UnitPrice |-> price, CustomerID |-> cid, Region |-> region,
   Amount |-> Missing, ValidationError |-> <<>>]

Skipped == [ok |-> FALSE, t |-> <<>>]

\* Faulty variant of parsed_record: a non-numeric Quantity or UnitPrice becomes 0
\* instead of skipping the line.
parsed_record_keeps_bad_numbers(fields, quantity, unit_price) ==
  [ok |-> TRUE,
   t |-> <<Transaction(StrV(Strip(fields[1])), StrV(Strip(fields[2])),
                       StrV(Strip(fields[3])),
                       StrV(JoinWords(Replace(Strip(fields[4]), ",", <<" ">>))),
                       [k |-> "int", n |-> Trunc(quantity.n), s |-> <<>>],
                       FloatV(unit_price.n),
                       StrV(Strip(fields[7])), StrV(Strip(fields[8])))>>]

\* lines 135-177: the cleaned fields as a dict, with quantity and unit_price
\* the results of float() on the comma-free text; a ValueError skips the line.
parsed_record(fields, quantity, unit_price) ==
  IF ~quantity.ok \/ ~unit_price.ok THEN Skipped
  ELSE [ok |-> TRUE,
        t |-> <<Transaction(StrV(Strip(fields[1])), StrV(Strip(fields[2])),
                            StrV(Strip(fields[3])),
                            StrV(JoinWords(Replace(Strip(fields[4]), ",", <<" ">>))),
                            [k |-> "int", n |-> Trunc(quantity.n), s |-> <<>>],
                            FloatV(unit_price.n),
                            StrV(Strip(fields[7])), StrV(Strip(fields[8])))>>]

\* lines 128-133: a line that has not exactly 8 fields is skipped.
parse_fields(fields) ==
  IF Len(fields) # 8 THEN Skipped
  ELSE parsed_record(fields,
                     ParseFloat(Replace(Strip(fields[5]), ",", <<>>)),
                     ParseFloat(Replace(Strip(fields[6]), ",", <<>>)))

\* The body of the loop for one line: ok = FALSE is a skipped line.
\* A line that is not text fails in line.split and is skipped by the outer
\* except clause.
parse_line(line) ==
  IF line.k # "str" THEN Skipped ELSE parse_fields(Split(line.s, "|"))

RECURSIVE parsed_of(_)
parsed_of(lines) ==
  IF lines = <<>> THEN <<>>
  ELSE parse_line(Head(lines)).t \o parsed_of(Tail(lines))

parse_transactions(lines) ==
  [parsed_transactions |-> parsed_of(lines),
   skipped_count |-> Cardinality({i \in 1..Len(lines) : ~parse_line(lines[i]).ok})]

----------------------------------------------------------------------------
(* calculate_total_revenue, region_wise_sales *)

\* One operand of the aggregates: .get with a default, float() of text
\* after removing commas; anything else is used as it is.
coerced(v, default) ==
  CASE v.k = "missing" -> [ok |-> TRUE, v |-> default]
    [] v.k = "str" -> [ok |-> ParseFloat(Replace(v.s, ",", <<>>)).ok,
                       v |-> FloatV(ParseFloat(Replace(v.s, ",", <<>>)).n)]
    [] OTHER -> [ok |-> TRUE, v |-> v]

\* quantity * unit_price of two coerced operands.
product_of(quantity, unit_price) ==
  IF ~quantity.ok \/ ~unit_price.ok \/ ~Mul(quantity.v, unit_price.v).ok
  THEN [ok |-> FALSE, n |-> 0]
  ELSE [ok |-> TRUE, n |-> Mul(quantity.v, unit_price.v).v.n]

\* The coercion shared by the aggregates.  ok = FALSE is the ValueError or
\* TypeError that makes the loop skip the record.
revenue_of(t) == product_of(coerced(t.Quantity, IntV(0)), coerced(t.UnitPrice, FloatV(0)))

\* Faulty variant of calculate_total_revenue: a record that cannot be coerced ends
\* the loop (break instead of continue).
RECURSIVE calculate_total_revenue_breaks(_)
calculate_total_revenue_breaks(transactions) ==
  IF transactions = <<>> THEN 0
  ELSE IF ~revenue_of(Head(transactions)).ok THEN 0
  ELSE revenue_of(Head(transactions)).n + calculate_total_revenue_breaks(Tail(transactions))

\* Sums are exact in hundredths, so round(total_revenue, 2) leaves the
\* sum unchanged.
RECURSIVE calculate_total_revenue(_)
calculate_total_revenue(transactions) ==
  IF transactions = <<>> THEN 0
  ELSE (IF revenue_of(Head(transactions)).ok THEN revenue_of(Head(transactions)).n ELSE 0)
       + calculate_total_revenue(Tail(transactions))

\* floor(|num| * 10^k / den) and its remainder, one decimal digit at a time.
RECURSIVE LongDiv(_, _, _, _)
LongDiv(q, r, den, k) ==
  IF k = 0 THEN [q |-> q, r |-> r]
  ELSE LongDiv(q * 10 + (r * 10) \div den, (r * 10) % den, den, k - 1)

\* Rounding of quotient d.q with remainder d.r: an exact tie goes to the even
\* neighbour as round() does.
RoundHalfEven(d, den) ==
  IF 2 * d.r > den THEN d.q + 1
  ELSE IF 2 * d.r = den THEN d.q + (d.q % 2)
  ELSE d.q

Magnitude(x) == IF x < 0 THEN -x ELSE x

\* round((part / whole) * 100, 2) in hundredths of a percent, whole > 0.
Percentage(part, whole) ==
  (IF part < 0 THEN -1 ELSE 1)
  * RoundHalfEven(LongDiv(Magnitude(part) \div whole, Magnitude(part) % whole,
                          whole, 2 + Decimals),
                  whole)

\* transaction.get('Region', '').strip(); None has no strip (AttributeError).
region_key(t) == IF t.Region.k = "str" THEN Strip(t.Region.s) ELSE <<>>

\* Keys of a dict in insertion order: first occurrences.
RECURSIVE FirstSeen(_)
FirstSeen(keys) ==
  IF keys = <<>> THEN <<>>
  ELSE LET front == FirstSeen(SubSeq(keys, 1, Len(keys) - 1))
           last == keys[Len(keys)]
       IN IF \E i \in 1..Len(front) : front[i] = last THEN front ELSE Append(front, last)

RECURSIVE SumRevenue(_)
SumRevenue(ts) ==
  IF ts = <<>> THEN 0 ELSE revenue_of(Head(ts)).n + SumRevenue(Tail(ts))

\* sorted(items, key = total_sales, reverse = True): stable, so equal keys
\* keep their dict order.
RECURSIVE SortBySalesDesc(_)
SortBySalesDesc(items) ==
  IF items = <<>> THEN <<>>
  ELSE LET i == CHOOSE a \in 1..Len(items) :
                  /\ \A b \in 1..Len(items) : items[b].total_sales <= items[a].total_sales
                  /\ \A b \in 1..(a - 1) : items[b].total_sales < items[a].total_sales
       IN <<items[i]>> \o SortBySalesDesc(SubSeq(items, 1, i - 1) \o SubSeq(items, i + 1, Len(items)))

\* lines 86-99: the records that enter region_sales and total_all_sales.
IsCounted(t) == region_key(t) # <<>> /\ revenue_of(t).ok

\* lines 117-126: one item of the result dict.
region_entry(region, total_sales, transaction_count, total_all_sales) ==
  [region |-> region,
   total_sales |-> total_sales,
   transaction_count |-> transaction_count,
   percentage |-> IF total_all_sales > 0 THEN Percentage(total_sales, total_all_sales)
                  ELSE 0]

region_total(region, members, total_all_sales) ==
  region_entry(region, SumRevenue(members), Len(members), total_all_sales)

\* lines 102-126: the dict in insertion order.
region_sales(counted, keys, total_all_sales) ==
  [i \in 1..Len(keys) |->
     region_total(keys[i],
                  SelectSeq(counted, LAMBDA t : region_key(t) = keys[i]),
                  total_all_sales)]

region_sales_of(counted) ==
  region_sales(counted,
               FirstSeen([i \in 1..Len(counted) |-> region_key(counted[i])]),
               SumRevenue(counted))

\* The result dict as the sequence of its items in iteration order.
region_wise_sales(transactions) ==
  IF \E i \in 1..Len(transactions) : transactions[i].Region.k \notin {"str", "missing"}
  THEN [raised |-> "AttributeError", result |-> <<>>]
  ELSE [raised |-> "none",
        result |-> SortBySalesDesc(region_sales_of(SelectSeq(transactions, IsCounted)))]

----------------------------------------------------------------------------
(* top_selling_products, low_performing_products *)

\* transaction.get(key, '').strip(): ok = FALSE is the AttributeError of a
\* value without a strip method (None, a number), which no handler catches.
stripped(v) ==
  CASE v.k = "missing" -> [ok |-> TRUE, s |-> <<>>]
    [] v.k = "str" -> [ok |-> TRUE, s |-> Strip(v.s)]
    [] OTHER -> [ok |-> FALSE, s |-> <<>>]

\* int(x) applied to the result of float(text).
truncated(r) == [ok |-> r.ok, v |-> [k |-> "int", n |-> Trunc(r.n), s |-> <<>>]]

\* The quantity of the product aggregates: .get with default 0, text becomes
\* int(float(text without commas)); anything else is used as it is.
quantity_operand(v) ==
  CASE v.k = "missing" -> [ok |-> TRUE, v |-> IntV(0)]
    [] v.k = "str" -> truncated(ParseFloat(Replace(v.s, ",", <<>>)))
    [] OTHER -> [ok |-> TRUE, v |-> v]

\* `if product_name not in product_data`: a new key gets zero totals.
with_product(data, name) ==
  IF \E i \in 1..Len(data) : data[i].name = name THEN data
  ELSE Append(data, [name |-> name, total_quantity |-> 0, total_revenue |-> 0])

\* The two += statements.  The first raises TypeError for a quantity that is
\* not a number, the second for a product that cannot be formed; what was
\* assigned before the exception stays assigned.
add_to_product(entry, quantity, unit_price) ==
  IF ~IsNum(quantity) THEN entry
  ELSE IF ~Mul(quantity, unit_price).ok
  THEN [entry EXCEPT !.total_quantity = @ + quantity.n]
  ELSE [entry EXCEPT !.total_quantity = @ + quantity.n,
                     !.total_revenue = @ + Mul(quantity, unit_price).v.n]

accumulate(data, name, quantity, unit_price) ==
  [i \in 1..Len(data) |->
     IF data[i].name = name THEN add_to_product(data[i], quantity, unit_price)
     ELSE data[i]]

\* The body of the loop once the operands are known: a blank name or a
\* ValueError of the coercion leaves product_data as it is.
product_record(data, name, quantity, unit_price) ==
  IF name = <<>> \/ ~quantity.ok \/ ~unit_price.ok THEN data
  ELSE accumulate(with_product(data, name), name, quantity.v, unit_price.v)

product_step(data, t) ==
  product_record(data, stripped(t.ProductName).s, quantity_operand(t.Quantity),
                 coerced(t.UnitPrice, FloatV(0)))

\* product_data after the loop, as the sequence of its items in insertion
\* order.
RECURSIVE product_data(_)
product_data(transactions) ==
  IF transactions = <<>> THEN <<>>
  ELSE product_step(product_data(SubSeq(transactions, 1, Len(transactions) - 1)),
                    transactions[Len(transactions)])

\* The permutation of a stable ascending sort by the given keys: position r
\* holds the index with r - 1 predecessors (smaller key, or equal key and
\* earlier index).
StableOrder(keys) ==
  [r \in 1..Len(keys) |->
     CHOOSE i \in 1..Len(keys) :
       Cardinality({j \in 1..Len(keys) :
                      keys[j] < keys[i] \/ (keys[j] = keys[i] /\ j < i)}) = r - 1]

Reordered(items, order) == [r \in 1..Len(items) |-> items[order[r]]]

\* list.sort(key = total quantity): stable, ascending.
SortByQuantity(items) ==
  Reordered(items, StableOrder([i \in 1..Len(items) |-> items[i].total_quantity]))

\* list.sort(key = total quantity, reverse = True): descending, equal keys
\* keep their order.
SortByQuantityDesc(items) ==
  Reordered(items, StableOrder([i \in 1..Len(items) |-> -items[i].total_quantity]))

\* Faulty variant of first_n: the slice takes one item more.
first_n_one_more(items, n) ==
  SubSeq(items, 1, IF n + 1 < Len(items) THEN n + 1 ELSE Len(items))

\* list[:n], also for a negative n (all but the last -n items).
first_n(items, n) ==
  IF n >= 0 THEN SubSeq(items, 1, IF n < Len(items) THEN n ELSE Len(items))
  ELSE SubSeq(items, 1, IF Len(items) + n > 0 THEN Len(items) + n ELSE 0)

\* The result list of (name, total_quantity, total_revenue) tuples.
top_selling_products(transactions, n) ==
  IF \E i \in 1..Len(transactions) : ~stripped(transactions[i].ProductName).ok
  THEN [raised |-> "AttributeError", result |-> <<>>]
  ELSE [raised |-> "none",
        result |-> first_n(SortByQuantityDesc(product_data(transactions)), n)]

\* Faulty variant of BelowThreshold: a total equal to the threshold passes.
BelowThreshold_inclusive(items, threshold) ==
  SelectSeq(items, LAMBDA e : e.total_quantity <= threshold * Scale)

\* `data['total_quantity'] < threshold`, threshold a whole number.
BelowThreshold(items, threshold) ==
  SelectSeq(items, LAMBDA e : e.total_quantity < threshold * Scale)

low_performing_products(transactions, threshold) ==
  IF \E i \in 1..Len(transactions) : ~stripped(transactions[i].ProductName).ok
  THEN [raised |-> "AttributeError", result |-> <<>>]
  ELSE [raised |-> "none",
        result |-> SortByQuantity(BelowThreshold(product_data(transactions), threshold))]

----------------------------------------------------------------------------
(* customer_analysis *)

\* `if customer_id not in customer_data`
with_customer(data, customer_id) ==
  IF \E i \in 1..Len(data) : data[i].customer_id = customer_id THEN data
  ELSE Append(data, [customer_id |-> customer_id, total_spent |-> 0,
                     purchase_count |-> 0, products_bought |-> {}])

add_purchase(data, customer_id, product_name, amount_spent) ==
  [i \in 1..Len(data) |->
     IF data[i].customer_id = customer_id
     THEN [data[i] EXCEPT !.total_spent = @ + amount_spent,
                          !.purchase_count = @ + 1,
                          !.products_bought = @ \cup {product_name}]
     ELSE data[i]]

\* The body of the loop: a blank CustomerID or ProductName, or an amount that
\* cannot be computed (ValueError, TypeError), leaves customer_data as it is.
customer_record(data, customer_id, product_name, amount_spent) ==
  IF customer_id = <<>> \/ product_name = <<>> \/ ~amount_spent.ok THEN data
  ELSE add_purchase(with_customer(data, customer_id), customer_id, product_name,
                    amount_spent.n)

customer_step(data, t) ==
  customer_record(data, stripped(t.CustomerID).s, stripped(t.ProductName).s,
                  revenue_of(t))

RECURSIVE customer_data(_)
customer_data(transactions) ==
  IF transactions = <<>> THEN <<>>
  ELSE customer_step(customer_data(SubSeq(transactions, 1, Len(transactions) - 1)),
                     transactions[Len(transactions)])

\* Faulty variant of Average: the quotient is cut, not rounded.
Average_cut(total, count) ==
  (IF total < 0 THEN -1 ELSE 1) * (Magnitude(total) \div count)

\* round(total / count, 2) in hundredths, count > 0.  The division is exact
\* or leaves a remainder that is not a tie for the sample amounts.
Average(total, count) ==
  (IF total < 0 THEN -1 ELSE 1)
  * RoundHalfEven([q |-> Magnitude(total) \div count, r |-> Magnitude(total) % count],
                  count)

\* One item of the result dict.
customer_entry(c) ==
  [customer_id |-> c.customer_id,
   total_spent |-> c.total_spent,
   purchase_count |-> c.purchase_count,
   avg_order_value |-> IF c.purchase_count > 0 THEN Average(c.total_spent, c.purchase_count)
                       ELSE 0,
   products_bought |-> SortedStrs(c.products_bought)]

customer_entries(data) == [i \in 1..Len(data) |-> customer_entry(data[i])]

\* Faulty variant of SortBySpentDesc: reverse = True is left out.
SortBySpentAsc(items) ==
  Reordered(items, StableOrder([i \in 1..Len(items) |-> items[i].total_spent]))

\* sorted(items, key = total_spent, reverse = True)
SortBySpentDesc(items) ==
  Reordered(items, StableOrder([i \in 1..Len(items) |-> -items[i].total_spent]))

\* The result dict as the sequence of its items in iteration order.
customer_analysis(transactions) ==
  IF \E i \in 1..Len(transactions) :
       ~stripped(transactions[i].CustomerID).ok \/ ~stripped(transactions[i].ProductName).ok
  THEN [raised |-> "AttributeError", result |-> <<>>]
  ELSE [raised |-> "none",
        result |-> SortBySpentDesc(customer_entries(customer_data(transactions)))]

----------------------------------------------------------------------------
(* daily_sales_trend, find_peak_sales_day *)

\* `if date not in daily_data`
with_date(data, date) ==
  IF \E i \in 1..Len(data) : data[i].date = date THEN data
  ELSE Append(data, [date |-> date, revenue |-> 0, transaction_count |-> 0,
                     unique_customers |-> {}])

\* A blank customer_id is not added to the set.
add_sale(data, date, customer_id, revenue) ==
  [i \in 1..Len(data) |->
     IF data[i].date = date
     THEN [data[i] EXCEPT !.revenue = @ + revenue,
                          !.transaction_count = @ + 1,
                          !.unique_customers =
                             IF customer_id = <<>> THEN @ ELSE @ \cup {customer_id}]
     ELSE data[i]]

daily_record(data, date, customer_id, revenue) ==
  IF date = <<>> \/ ~revenue.ok THEN data
  ELSE add_sale(with_date(data, date), date, customer_id, revenue.n)

daily_step(data, t) ==
  daily_record(data, stripped(t.Date).s, stripped(t.CustomerID).s, revenue_of(t))

RECURSIVE daily_data(_)
daily_data(transactions) ==
  IF transactions = <<>> THEN <<>>
  ELSE daily_step(daily_data(SubSeq(transactions, 1, Len(transactions) - 1)),
                  transactions[Len(transactions)])

daily_entry(d) ==
  [date |-> d.date, revenue |-> d.revenue, transaction_count |-> d.transaction_count,
   unique_customers |-> Cardinality(d.unique_customers)]

\* dict(sorted(result.items())): the keys are distinct, so the items are
\* ordered by their key.
sorted_by_date(data, dates) ==
  [r \in 1..Len(dates) |->
     daily_entry(data[CHOOSE i \in 1..Len(data) : data[i].date = dates[r]])]

\* Faulty variant of daily_result: the items stay in insertion order.
daily_result_unsorted(data) == [i \in 1..Len(data) |-> daily_entry(data[i])]

daily_result(data) ==
  sorted_by_date(data, SortedStrs({data[i].date : i \in 1..Len(data)}))

\* The result dict as the sequence of its items in iteration order.
daily_sales_trend(transactions) ==
  IF \E i \in 1..Len(transactions) :
       ~stripped(transactions[i].Date).ok \/ ~stripped(transactions[i].CustomerID).ok
  THEN [raised |-> "AttributeError", result |-> <<>>]
  ELSE [raised |-> "none", result |-> daily_result(daily_data(transactions))]

\* Faulty variant of peak_of: the last item with the largest revenue.
peak_of_last(daily_trend) ==
  daily_trend[CHOOSE i \in 1..Len(daily_trend) :
                /\ \A j \in 1..Len(daily_trend) : daily_trend[j].revenue <= daily_trend[i].revenue
                /\ \A j \in (i + 1)..Len(daily_trend) : daily_trend[j].revenue < daily_trend[i].revenue]

\* max(items, key = revenue): the first item with the largest revenue.
peak_of(daily_trend) ==
  daily_trend[CHOOSE i \in 1..Len(daily_trend) :
                /\ \A j \in 1..Len(daily_trend) : daily_trend[j].revenue <= daily_trend[i].revenue
                /\ \A j \in 1..(i - 1) : daily_trend[j].revenue < daily_trend[i].revenue]

NoPeak == [date |-> <<>>, revenue |-> 0, transaction_count |-> 0]

peak_tuple(e) == [date |-> e.date, revenue |-> e.revenue, transaction_count |-> e.transaction_count]

peak_from(daily) ==
  IF daily.raised # "none" THEN [raised |-> daily.raised, result |-> NoPeak]
  ELSE IF daily.result = <<>> THEN [raised |-> "none", result |-> NoPeak]
  ELSE [raised |-> "none", result |-> peak_tuple(peak_of(daily.result))]

find_peak_sales_day(transactions) == peak_from(daily_sales_trend(transactions))

----------------------------------------------------------------------------
(* extract_numeric_id (utils/api_handler.py) *)

\* str.lstrip('Pp')
RECURSIVE LStripP(_)
LStripP(s) ==
  IF s # <<>> /\ Head(s) \in {"P", "p"} THEN LStripP(Tail(s)) ELSE s

\* The end of the run of digits that starts at position i.
RECURSIVE RunEnd(_, _)
RunEnd(s, i) ==
  IF i < Len(s) /\ s[i + 1] \in Digits THEN RunEnd(s, i + 1) ELSE i

DigitRunAt(s, i) == SubSeq(s, i, RunEnd(s, i))

\* Faulty variant of first_number: the run of digits found last.
first_number_last(s) ==
  IF \A i \in 1..Len(s) : s[i] \notin Digits THEN <<>>
  ELSE LET e == CHOOSE i \in 1..Len(s) :
                  s[i] \in Digits /\ \A j \in (i + 1)..Len(s) : s[j] \notin Digits
           b == CHOOSE i \in 1..e :
                  /\ \A j \in i..e : s[j] \in Digits
                  /\ (i = 1 \/ s[i - 1] \notin Digits)
       IN SubSeq(s, b, e)

\* re.findall(r'\d+', s)[0]; <<>> when the list is empty.
first_number(s) ==
  IF \A i \in 1..Len(s) : s[i] \notin Digits THEN <<>>
  ELSE DigitRunAt(s, CHOOSE i \in 1..Len(s) :
                       s[i] \in Digits /\ \A j \in 1..(i - 1) : s[j] \notin Digits)

\* lines 191-199: the ValueError branch.
number_in(digits) ==
  IF digits = <<>> THEN None ELSE IntV(ParseNat(digits))

\* lines 188-190: int(cleaned_id) or the fallback on the whole string.
int_or_search(parsed, product_id) ==
  IF parsed.ok THEN IntV(parsed.n \div Scale) ELSE number_in(first_number(product_id))

extract_numeric_id(product_id) ==
  IF product_id.k # "str" \/ product_id.s = <<>> THEN None
  ELSE int_or_search(ParseInt(LStripP(product_id.s)), product_id.s)

----------------------------------------------------------------------------
(* enrich_sales_data (utils/api_handler.py) *)

\* A dict of the transaction list: the eight parsed fields (base) and the
\* four API_* keys, Missing while the dict has no such key.
BoolV(b) == [k |-> "bool", n |-> IF b THEN 1 ELSE 0, s |-> <<>>]

NoApiFields ==
  [API_Category |-> Missing, API_Brand |-> Missing, API_Rating |-> Missing,
   API_Match |-> Missing]

Plain(t) == [base |-> t, api |-> NoApiFields]

\* lines 295-300 and 313-318: the update of a record without a match.
miss_fields ==
  [API_Category |-> None, API_Brand |-> None, API_Rating |-> None,
   API_Match |-> BoolV(FALSE)]

\* lines 279-284: api_data.get(key) is None for an absent key.
hit_fields(api_data) ==
  [API_Category |-> api_data.category, API_Brand |-> api_data.brand,
   API_Rating |-> api_data.rating, API_Match |-> BoolV(TRUE)]

\* Faulty variant of is_hit: only `numeric_id in product_mapping` is tested.
is_hit_unchecked(numeric_id, product_mapping) ==
  numeric_id.k = "int" /\ (numeric_id.n \div Scale) \in DOMAIN product_mapping

\* line 275: `if numeric_id and numeric_id in product_mapping`
is_hit(numeric_id, product_mapping) ==
  Truthy(numeric_id) /\ (numeric_id.n \div Scale) \in DOMAIN product_mapping

\* One pass of the loop for a dict d of the input list: the dict appended to
\* the result, whether it is the input dict itself, and the input dict after
\* the pass.  A mapping value that is not a dict makes api_data.get raise
\* AttributeError: the handler updates and appends the input dict.
enrich_one(d, numeric_id, product_mapping) ==
  IF is_hit(numeric_id, product_mapping)
  THEN IF product_mapping[numeric_id.n \div Scale].is_dict
       THEN [record |-> [d EXCEPT !.api = hit_fields(product_mapping[numeric_id.n \div Scale])],
             shared |-> FALSE, input |-> d]
       ELSE [record |-> [d EXCEPT !.api = miss_fields], shared |-> TRUE,
             input |-> [d EXCEPT !.api = miss_fields]]
  ELSE [record |-> [d EXCEPT !.api = miss_fields], shared |-> FALSE, input |-> d]

\* transaction.get('ProductID', '')
product_id_of(d) ==
  IF d.base.ProductID.k = "missing" THEN StrV(<<>>) ELSE d.base.ProductID

enrich_record(d, product_mapping) ==
  enrich_one(d, extract_numeric_id(product_id_of(d)), product_mapping)

\* Faulty variant of enriched_list: the handler does not append the record.
enriched_list_without_failed(passes) ==
  [result |-> [i \in 1..Len(SelectSeq(passes, LAMBDA p : ~p.shared)) |->
                 SelectSeq(passes, LAMBDA p : ~p.shared)[i].record],
   shared |-> [i \in 1..Len(SelectSeq(passes, LAMBDA p : ~p.shared)) |-> FALSE],
   same_list |-> FALSE,
   input_after |-> [i \in 1..Len(passes) |-> passes[i].input]]

\* The loop of lines 263-319 over the whole list.
enriched_list(passes) ==
  [result |-> [i \in 1..Len(passes) |-> passes[i].record],
   shared |-> [i \in 1..Len(passes) |-> passes[i].shared],
   same_list |-> FALSE,
   input_after |-> [i \in 1..Len(passes) |-> passes[i].input]]

\* lines 245-255: an empty mapping updates the input dicts and returns the
\* input list itself.
updated_in_place(transactions) ==
  [result |-> [i \in 1..Len(transactions) |-> [transactions[i] EXCEPT !.api = miss_fields]],
   shared |-> [i \in 1..Len(transactions) |-> TRUE],
   same_list |-> TRUE,
   input_after |-> [i \in 1..Len(transactions) |-> [transactions[i] EXCEPT !.api = miss_fields]]]

enrich_sales_data(transactions, product_mapping) ==
  IF transactions = <<>>
  THEN [result |-> <<>>, shared |-> <<>>, same_list |-> FALSE, input_after |-> <<>>]
  ELSE IF DOMAIN product_mapping = {} THEN updated_in_place(transactions)
  ELSE enriched_list([i \in 1..Len(transactions) |->
                        enrich_record(transactions[i], product_mapping)])

----------------------------------------------------------------------------
(* save_enriched_data (utils/api_handler.py) *)

header_fields ==
  <<"TransactionID", "Date", "ProductID", "ProductName", "Quantity", "UnitPrice",
    "CustomerID", "Region", "API_Category", "API_Brand", "API_Rating", "API_Match">>

DigitChars == <<"0", "1", "2", "3", "4", "5", "6", "7", "8", "9">>

\* str(i) for i >= 0
RECURSIVE NatText(_)
NatText(i) ==
  IF i < 10 THEN <<DigitChars[i + 1]>>
  ELSE NatText(i \div 10) \o <<DigitChars[(i % 10) + 1]>>

\* The digits after the point in str(x) of a float with at most two decimals.
FractionText(h) ==
  IF h % 10 = 0 THEN <<DigitChars[(h \div 10) + 1]>>
  ELSE <<DigitChars[(h \div 10) + 1], DigitChars[(h % 10) + 1]>>

\* str(value) of a number held in hundredths.
NumberText(v) ==
  (IF v.n < 0 THEN <<"-">> ELSE <<>>)
  \o NatText(Magnitude(v.n) \div Scale)
  \o (IF v.k = "float" THEN <<".">> \o FractionText(Magnitude(v.n) % Scale) ELSE <<>>)

\* lines 396-408: transaction.get(field, ''), None as '', str(value).strip().
field_text(v) ==
  CASE v.k \in {"missing", "none"} -> <<>>
    [] v.k = "bool" -> IF v.n = 1 THEN <<"T", "r", "u", "e">> ELSE <<"F", "a", "l", "s", "e">>
    [] v.k \in {"int", "float"} -> NumberText(v)
    [] OTHER -> Strip(v.s)

\* transaction.get(field, '') on a dict of the list.
field_of(d, field) ==
  IF field \in DOMAIN d.api THEN d.api[field] ELSE d.base[field]

\* '|'.join(row)
RECURSIVE Join(_, _)
Join(row, sep) ==
  IF row = <<>> THEN <<>>
  ELSE IF Len(row) = 1 THEN row[1]
  ELSE row[1] \o <<sep>> \o Join(Tail(row), sep)

row_of(d) ==
  [i \in 1..Len(header_fields) |-> field_text(field_of(d, header_fields[i]))]

\* The return value and the data lines of the file (after the header line);
\* an empty list writes no file.
save_enriched_data(enriched_transactions) ==
  IF enriched_transactions = <<>> THEN [returned |-> FALSE, lines |-> <<>>]
  ELSE [returned |-> TRUE,
        lines |-> [i \in 1..Len(enriched_transactions) |->
                     Join(row_of(enriched_transactions[i]), "|")]]

----------------------------------------------------------------------------
(* read_sales_data (utils/file_handler.py) *)

\* A file is its status and its lines as readlines() returns them (without
\* the line ends, which strip() removes).  Status "missing": no such path;
\* "unreadable": open() fails in every encoding (permissions, a directory);
\* "utf-8": the bytes decode as UTF-8; "latin-1": they do not, and decode as
\* latin-1, which accepts every byte.
encodings == <<"utf-8", "latin-1", "cp1252">>

\* lines 39-43: open and readlines with one encoding.  ok = FALSE is the
\* exception that the handlers of lines 61-66 turn into `continue`.
read_with(file, encoding) ==
  IF file.status \in {"missing", "unreadable"} THEN [ok |-> FALSE, all_lines |-> <<>>]
  ELSE IF file.status = "latin-1" /\ encoding = "utf-8" THEN [ok |-> FALSE, all_lines |-> <<>>]
  ELSE [ok |-> TRUE, all_lines |-> file.lines]

\* lines 49-56: the lines after the header, stripped, without the empty ones.
RECURSIVE data_lines(_)
data_lines(lines) ==
  IF lines = <<>> THEN <<>>
  ELSE (IF Strip(Head(lines)) # <<>> THEN <<Strip(Head(lines))>> ELSE <<>>)
       \o data_lines(Tail(lines))

\* Faulty variant of lines_after_header: the header row is kept.
lines_with_header(all_lines) == data_lines(all_lines)

lines_after_header(all_lines) == data_lines(Tail(all_lines))

\* lines 37-66: the loop over the encodings from position i on; the first
\* encoding that reads at least one line ends it.
RECURSIVE try_encodings(_, _)
try_encodings(file, i) ==
  IF i > Len(encodings) THEN [successful_read |-> FALSE, raw_lines |-> <<>>]
  ELSE IF read_with(file, encodings[i]).ok /\ Len(read_with(file, encodings[i]).all_lines) > 0
  THEN [successful_read |-> TRUE,
        raw_lines |-> lines_after_header(read_with(file, encodings[i]).all_lines)]
  ELSE try_encodings(file, i + 1)

\* lines 68-76: without a successful read ValueError is raised inside the
\* outer try and its handler returns [].
returned_lines(r) ==
  [raised |-> "none", result |-> IF r.successful_read THEN r.raw_lines ELSE <<>>]

read_sales_data(file) == returned_lines(try_encodings(file, 1))

----------------------------------------------------------------------------
(* fetch_all_products, create_product_mapping (utils/api_handler.py) *)

\* lines 49-103: the products of a response with status 200; [] for every
\* other status and for every exception of requests.get, which the four
\* except clauses catch.
fetch_all_products(response) ==
  IF response.raised # "none" THEN <<>>
  ELSE IF response.status_code = 200 THEN response.products
  ELSE <<>>

\* lines 128-148: one entry per product with a truthy id; a later product
\* with the same id replaces the earlier one.
RECURSIVE create_product_mapping(_)
create_product_mapping(api_products) ==
  IF api_products = <<>> THEN [id \in {} |-> None]
  ELSE IF api_products[Len(api_products)].id # 0
  THEN (api_products[Len(api_products)].id :> api_products[Len(api_products)].info)
       @@ create_product_mapping(SubSeq(api_products, 1, Len(api_products) - 1))
  ELSE create_product_mapping(SubSeq(api_products, 1, Len(api_products) - 1))

----------------------------------------------------------------------------
(* generate_sales_report, generate_json_report, generate_executive_summary
   (utils/report_generator.py): TRUE when the report file is written *)

\* One of the aggregates raises on the list.
analysis_raises(transactions) ==
  \/ region_wise_sales(transactions).raised # "none"
  \/ top_selling_products(transactions, 5).raised # "none"
  \/ customer_analysis(transactions).raised # "none"
  \/ daily_sales_trend(transactions).raised # "none"
  \/ low_performing_products(transactions, 5).raised # "none"

\* Faulty variant of generate_sales_report: the table rows do not rebind the
\* parameter.
generate_sales_report_keeps_list(transactions) ==
  transactions # <<>> /\ ~analysis_raises(transactions)

\* report_generator.py lines 93-358.  Line 242, inside the loop over the
\* rows of the daily trend, assigns the formatted transaction count to the
\* parameter `transactions`; line 261 then calls find_peak_sales_day on that
\* text, whose characters have no .get: AttributeError, caught at line 356,
\* and the function returns False without writing the file.  The file is
\* written only when the daily trend has no row.
generate_sales_report(transactions) ==
  /\ transactions # <<>>
  /\ ~analysis_raises(transactions)
  /\ daily_sales_trend(transactions).result = <<>>

\* report_generator.py lines 376-448: min() over the dates raises ValueError
\* when the list is not empty and no record has a date.
generate_json_report(transactions) ==
  /\ ~analysis_raises(transactions)
  /\ transactions = <<>> \/ \E i \in 1..Len(transactions) : Truthy(transactions[i].Date)

\* report_generator.py lines 462-564
generate_executive_summary(transactions) ==
  transactions # <<>> /\ ~analysis_raises(transactions)

----------------------------------------------------------------------------
(* main (main.py) *)

\* Faulty variant of stops_if_empty: the run goes on with an empty result.
goes_on_if_empty(result) == FALSE

\* `if not X: success = False; return` after reading, parsing and filtering.
stops_if_empty(result) == result = <<>>

\* The text lines handed to parse_transactions.
as_text(lines) == [i \in 1..Len(lines) |-> StrV(lines[i])]

\* The validated records as dicts without API_* keys.
as_plain(transactions) == [i \in 1..Len(transactions) |-> Plain(transactions[i])]

\* lines 320-349: the calls of step 5 in the order of the code.
analysis_calls ==
  <<"calculate_total_revenue", "region_wise_sales", "top_selling_products",
    "customer_analysis", "daily_sales_trend", "find_peak_sales_day",
    "low_performing_products", "save_analysis_results">>

\* lines 509-526: the handler prints the message, then writes error_log.txt
\* into output_dir and sets success = False as its last statement.  It ends
\* normally only if the console can encode its message and output_dir is
\* bound to a directory that can be written.
handler_completes(r) == r.console_ok /\ r.output_dir /\ r.dir_ok

----------------------------------------------------------------------------
(* Inputs *)

\* T001|2024-12-01|P101|Laptop, Pro|2|45,000|C001|North
LineExample == StrV(<<"T", "0", "0", "1", "|", "2", "0", "2", "4", "-", "1", "2", "-", "0", "1", "|", "P", "1", "0", "1", "|", "L", "a", "p", "t", "o", "p", ",", " ", "P", "r", "o", "|", "2", "|", "4", "5", ",", "0", "0", "0", "|", "C", "0", "0", "1", "|", "N", "o", "r", "t", "h">>)

\* T002|2024-12-01|P102|Mouse|1|5.5|C002|South
LinePlain == StrV(<<"T", "0", "0", "2", "|", "2", "0", "2", "4", "-", "1", "2", "-", "0", "1", "|", "P", "1", "0", "2", "|", "M", "o", "u", "s", "e", "|", "1", "|", "5", ".", "5", "|", "C", "0", "0", "2", "|", "S", "o", "u", "t", "h">>)

\*  T003 |2024-12-02| P103 | Desk ,, Lamp |-2.9| 10 | C003 | north 
LineBlanks == StrV(<<" ", "T", "0", "0", "3", " ", "|", "2", "0", "2", "4", "-", "1", "2", "-", "0", "2", "|", " ", "P", "1", "0", "3", " ", "|", " ", "D", "e", "s", "k", " ", ",", ",", " ", "L", "a", "m", "p", " ", "|", "-", "2", ".", "9", "|", " ", "1", "0", " ", "|", " ", "C", "0", "0", "3", " ", "|", " ", "n", "o", "r", "t", "h", " ">>)

\* T004|2024-12-02|P104|Pen|1|5|C001
LineSeven == StrV(<<"T", "0", "0", "4", "|", "2", "0", "2", "4", "-", "1", "2", "-", "0", "2", "|", "P", "1", "0", "4", "|", "P", "e", "n", "|", "1", "|", "5", "|", "C", "0", "0", "1">>)

\* T005|2024-12-02|P105|Pen|1|5|C001|North|x
LineNine == StrV(<<"T", "0", "0", "5", "|", "2", "0", "2", "4", "-", "1", "2", "-", "0", "2", "|", "P", "1", "0", "5", "|", "P", "e", "n", "|", "1", "|", "5", "|", "C", "0", "0", "1", "|", "N", "o", "r", "t", "h", "|", "x">>)

\* T006|2024-12-03|P106|Pen|abc|5|C001|North
LineBadQty == StrV(<<"T", "0", "0", "6", "|", "2", "0", "2", "4", "-", "1", "2", "-", "0", "3", "|", "P", "1", "0", "6", "|", "P", "e", "n", "|", "a", "b", "c", "|", "5", "|", "C", "0", "0", "1", "|", "N", "o", "r", "t", "h">>)

\* T007|2024-12-03|P107|Pen|2|1.2.3|C001|North
LineBadPrice == StrV(<<"T", "0", "0", "7", "|", "2", "0", "2", "4", "-", "1", "2", "-", "0", "3", "|", "P", "1", "0", "7", "|", "P", "e", "n", "|", "2", "|", "1", ".", "2", ".", "3", "|", "C", "0", "0", "1", "|", "N", "o", "r", "t", "h">>)

\* T008|2024-12-03|P108|Pen|0|5|C002|South
LineZeroQty == StrV(<<"T", "0", "0", "8", "|", "2", "0", "2", "4", "-", "1", "2", "-", "0", "3", "|", "P", "1", "0", "8", "|", "P", "e", "n", "|", "0", "|", "5", "|", "C", "0", "0", "2", "|", "S", "o", "u", "t", "h">>)

\* A list element that is not text.
LineNone == None

SampleLines == {LineExample, LinePlain, LineBlanks, LineSeven, LineNine, LineBadQty, LineBadPrice, LineZeroQty, LineNone}

s_T001 == <<"T", "0", "0", "1">>
s_T002 == <<"T", "0", "0", "2">>
s_T003 == <<"T", "0", "0", "3">>
s_X001 == <<"X", "0", "0", "1">>
s_P101 == <<"P", "1", "0", "1">>
s_C001 == <<"C", "0", "0", "1">>
s_C002 == <<"C", "0", "0", "2">>
s_Laptop == <<"L", "a", "p", "t", "o", "p">>
s_Mouse == <<"M", "o", "u", "s", "e">>
s_North == <<"N", "o", "r", "t", "h">>
s_north == <<"n", "o", "r", "t", "h">>
s_South == <<"S", "o", "u", "t", "h">>
s_West == <<"W", "e", "s", "t">>
s_abc == <<"a", "b", "c">>
s_10 == <<"1", "0">>
s_date == <<"2", "0", "2", "4", "-", "1", "2", "-", "0", "1">>

RecBase ==
  Transaction(StrV(s_T001), StrV(s_date), StrV(s_P101), StrV(s_Laptop),
              IntV(2), FloatV(1000), StrV(s_C001), StrV(s_North))
RecLower ==
  Transaction(StrV(s_T002), StrV(s_date), StrV(s_P101), StrV(s_Mouse),
              IntV(1), FloatV(500), StrV(s_C002), StrV(s_north))
RecSouth ==
  Transaction(StrV(s_T003), StrV(s_date), StrV(s_P101), StrV(s_Laptop),
              IntV(3), FloatV(1000), StrV(s_C001), StrV(s_South))
RecQtyZero == [RecBase EXCEPT !.Quantity = IntV(0)]
RecQtyNegative == [RecBase EXCEPT !.Quantity = IntV(-1)]
RecQtyNone == [RecBase EXCEPT !.Quantity = None]
RecQtyText == [RecBase EXCEPT !.Quantity = StrV(s_abc)]
RecQtyMissing == [RecBase EXCEPT !.Quantity = Missing]
RecQtyFraction == [RecBase EXCEPT !.Quantity = FloatV(150)]
RecQtyHalf == [RecBase EXCEPT !.Quantity = FloatV(50)]
RecPriceZero == [RecBase EXCEPT !.UnitPrice = FloatV(0)]
RecPriceNegative == [RecBase EXCEPT !.UnitPrice = FloatV(-1000)]
RecPriceText == [RecBase EXCEPT !.UnitPrice = StrV(s_10)]
RecBadId == [RecBase EXCEPT !.TransactionID = StrV(s_X001)]
RecNoCustomer == [RecBase EXCEPT !.CustomerID = StrV(<<>>)]
RecBlankRegion == [RecBase EXCEPT !.Region = StrV(<<" ">>)]
RecNoRegion == [RecBase EXCEPT !.Region = None]

SampleRecords ==
  {RecBase, RecLower, RecSouth, RecQtyZero, RecQtyNegative, RecQtyNone,
   RecQtyText, RecQtyMissing, RecQtyFraction, RecQtyHalf, RecPriceZero,
   RecPriceNegative, RecPriceText, RecBadId, RecNoCustomer, RecBlankRegion,
   RecNoRegion}

s_T004 == <<"T", "0", "0", "4">>
s_Webcam == <<"W", "e", "b", "c", "a", "m">>
s_2 == <<"2">>
s_date2 == <<"2", "0", "2", "4", "-", "1", "2", "-", "0", "2">>
s_date_padded == <<" ", "2", "0", "2", "4", "-", "1", "2", "-", "0", "1">>
s_C001_padded == <<" ", "C", "0", "0", "1">>

\* Records for the product, customer and daily aggregates: two products, two
\* customers and two dates, equal quantities and equal daily revenues, text
\* numbers, padded keys, and each kind of record the loops skip or fail on.
SaleLaptop == [RecBase EXCEPT !.Date = StrV(s_date2)]
SaleMouse ==
  Transaction(StrV(s_T002), StrV(s_date), StrV(s_P101), StrV(s_Mouse),
              IntV(2), FloatV(500), StrV(s_C002), StrV(s_South))
SaleMouseOne ==
  Transaction(StrV(s_T003), StrV(s_date2), StrV(s_P101), StrV(s_Mouse),
              IntV(1), FloatV(500), StrV(s_C001_padded), StrV(s_North))
SaleText ==
  Transaction(StrV(s_T004), StrV(s_date_padded), StrV(s_P101), StrV(s_Laptop),
              StrV(s_2), StrV(s_10), StrV(s_C002), StrV(s_South))
SaleBadQty == [SaleMouse EXCEPT !.ProductName = StrV(s_Webcam), !.Quantity = StrV(s_abc)]
SaleNoQty == [SaleMouse EXCEPT !.ProductName = StrV(s_Webcam), !.Quantity = None]
SaleNoPrice == [SaleMouse EXCEPT !.UnitPrice = None]
SaleBlankName == [SaleLaptop EXCEPT !.ProductName = StrV(<<" ">>)]
SaleBlankCustomer == [SaleLaptop EXCEPT !.CustomerID = StrV(<<>>)]
SaleBlankDate == [SaleLaptop EXCEPT !.Date = StrV(<<>>)]
SaleNameNone == [SaleLaptop EXCEPT !.ProductName = None]
SaleCustomerNone == [SaleLaptop EXCEPT !.CustomerID = None]
SaleDateNone == [SaleLaptop EXCEPT !.Date = None]

SampleSales ==
  {SaleLaptop, SaleMouse, SaleMouseOne, SaleText, SaleBadQty, SaleNoQty,
   SaleNoPrice, SaleBlankName, SaleBlankCustomer, SaleBlankDate, SaleNameNone,
   SaleCustomerNone, SaleDateNone, RecNoRegion}

\* Arguments n of top_selling_products and threshold of
\* low_performing_products.
TopCounts == {0, 1, 2, 5}
Thresholds == {2, 3, 5}

\* ProductID values: the examples of the docstring and of the module's test,
\* ids with several letters, a sign, blanks or two runs of digits, and values
\* that are not text.
s_p5 == <<"p", "5">>
s_P101A == <<"P", "1", "0", "1", "A">>
s_101P == <<"1", "0", "1", "P">>
s_ABC == <<"A", "B", "C">>
s_P0 == <<"P", "0">>
s_PP7 == <<"P", "P", "7">>
s_Pminus5 == <<"P", "-", "5">>
s_blankP5 == <<" ", "P", "5">>
s_A1B22 == <<"A", "1", "B", "2", "2">>
s_P1dot5 == <<"P", "1", ".", "5">>

SampleProductIDs ==
  {StrV(s_P101), StrV(s_p5), StrV(s_P101A), StrV(s_101P), StrV(s_ABC), StrV(<<>>),
   StrV(s_P0), StrV(s_PP7), StrV(s_Pminus5), StrV(s_blankP5), StrV(s_A1B22),
   StrV(s_P1dot5), StrV(<<"P">>), StrV(<<"-">>), None, IntV(101), IntV(0)}

\* Transactions to enrich: ProductIDs with and without an id, and an absent or
\* null ProductID.
OrderLaptop == RecBase
OrderFive == [RecBase EXCEPT !.TransactionID = StrV(s_T002), !.ProductID = StrV(s_p5)]
OrderZero == [RecBase EXCEPT !.TransactionID = StrV(s_T003), !.ProductID = StrV(s_P0)]
OrderNoDigits == [RecBase EXCEPT !.ProductID = StrV(s_ABC)]
OrderNoProduct == [RecBase EXCEPT !.ProductID = None]
OrderNoKey == [RecBase EXCEPT !.ProductID = Missing]

SampleOrders ==
  {OrderLaptop, OrderFive, OrderZero, OrderNoDigits, OrderNoProduct, OrderNoKey}

\* Values of product_mapping: the dict built by create_product_mapping from
\* the API's products (text and numbers as the service sends them, a key
\* left out read as None), and a value that is not a dict.
s_laptops == <<"l", "a", "p", "t", "o", "p", "s">>
s_Apple == <<"A", "p", "p", "l", "e">>
s_brand_bar == <<"A", "|", "B">>
s_brand_padded == <<" ", "A", "p", "p", "l", "e">>

InfoLaptops ==
  [is_dict |-> TRUE, category |-> StrV(s_laptops), brand |-> StrV(s_Apple),
   rating |-> FloatV(470)]
InfoNoBrand == [InfoLaptops EXCEPT !.brand = None, !.rating = IntV(4)]
InfoBar == [InfoLaptops EXCEPT !.brand = StrV(s_brand_bar)]
InfoPadded == [InfoLaptops EXCEPT !.brand = StrV(s_brand_padded)]
NotADict == [is_dict |-> FALSE, category |-> None, brand |-> None, rating |-> None]

NoProducts == [id \in {} |-> InfoLaptops]

SampleMappings ==
  {NoProducts,
   101 :> InfoLaptops,
   (0 :> InfoLaptops) @@ (5 :> InfoNoBrand),
   (101 :> NotADict) @@ (5 :> InfoLaptops),
   (101 :> InfoBar) @@ (5 :> InfoPadded)}

\* Lines of the sales data file: the header row, a data line, a data line
\* with blanks around its fields, an empty line and a line of blanks.
FileHeader ==
  <<"T", "r", "a", "n", "s", "a", "c", "t", "i", "o", "n", "I", "D", "|",
    "D", "a", "t", "e", "|", "P", "r", "o", "d", "u", "c", "t", "I", "D",
    "|", "P", "r", "o", "d", "u", "c", "t", "N", "a", "m", "e", "|", "Q",
    "u", "a", "n", "t", "i", "t", "y", "|", "U", "n", "i", "t", "P", "r",
    "i", "c", "e", "|", "C", "u", "s", "t", "o", "m", "e", "r", "I", "D",
    "|", "R", "e", "g", "i", "o", "n">>

SampleFileLines == {FileHeader, LineExample.s, LineBlanks.s, <<>>, <<" ", " ">>}

FileStatuses == {"missing", "unreadable", "utf-8", "latin-1"}

\* What get_user_filters can return: a region or None, and both bounds or
\* neither (main.py lines 35-89).
UserFilters ==
  {<<None, None, None>>, <<StrV(s_north), None, None>>, <<StrV(s_West), None, None>>,
   <<None, FloatV(500), FloatV(2000)>>, <<StrV(s_North), FloatV(500), FloatV(100000000)>>}

ProductLaptop == [id |-> 101, info |-> InfoLaptops]
ProductZero == [id |-> 0, info |-> InfoLaptops]

\* Outcomes of requests.get in fetch_all_products.
Responses ==
  {[raised |-> "ConnectionError", status_code |-> 0, products |-> <<>>],
   [raised |-> "Timeout", status_code |-> 0, products |-> <<>>],
   [raised |-> "none", status_code |-> 500, products |-> <<>>],
   [raised |-> "none", status_code |-> 200, products |-> <<>>],
   [raised |-> "none", status_code |-> 200, products |-> <<ProductZero>>],
   [raised |-> "none", status_code |-> 200, products |-> <<ProductLaptop>>]}

\* Arguments of validate_and_filter: None is "not given".
RegionArgs == {None, StrV(<<>>), StrV(s_north), StrV(s_West)}
MinAmountArgs == {None, FloatV(2000)}
MaxAmountArgs == {None, FloatV(500), FloatV(2000)}

----------------------------------------------------------------------------
(* State *)

VARIABLES
  pc,            \* "input", "parsed", "validated", "failed", "analysed"
  raw_lines,     \* the lines handed to parse_transactions
  transactions,  \* the list of transaction dicts (mutated by validate_and_filter)
  skipped_count, \* parse_transactions: number of skipped lines
  vf,            \* the last call of validate_and_filter: arguments and result
  agg,           \* the last aggregate call: function, argument and result
  api,           \* the last call of a function of utils/api_handler.py
  io,            \* the sales data file and the last call of read_sales_data
  run            \* one execution of main()

vars == <<pc, raw_lines, transactions, skipped_count, vf, agg, api, io, run>>

NoCall ==
  [region |-> None, min_amount |-> None, max_amount |-> None, input |-> <<>>,
   raised |-> "none", valid |-> <<>>, invalid_count |-> 0, summary |-> NoSummary]

NoAggregate ==
  [fn |-> "none", T |-> <<>>, validated |-> FALSE, total_revenue |-> 0,
   region_sales |-> [raised |-> "none", result |-> <<>>],
   n |-> 0, threshold |-> 0,
   products |-> [raised |-> "none", result |-> <<>>],
   customers |-> [raised |-> "none", result |-> <<>>],
   daily_trend |-> [raised |-> "none", result |-> <<>>],
   peak_day |-> [raised |-> "none", result |-> NoPeak]]

NoEnrichment == [result |-> <<>>, shared |-> <<>>, same_list |-> FALSE, input_after |-> <<>>]

NoApiCall ==
  [fn |-> "none", product_id |-> None, numeric_id |-> None, T |-> <<>>,
   product_mapping |-> NoProducts, enriched |-> NoEnrichment,
   saved |-> [returned |-> FALSE, lines |-> <<>>]]

NoFile == [status |-> "utf-8", lines |-> <<>>]

NoRead == [fn |-> "none", file |-> NoFile, returned |-> [raised |-> "none", result |-> <<>>]]

\* main() has not been started.  exit_status -1: the process has not exited.
NoRun ==
  [pc |-> "idle", current_step |-> 0, success |-> TRUE, exit_status |-> -1,
   console_ok |-> TRUE, dir_ok |-> TRUE, output_dir |-> FALSE,
   error |-> "none", caught |-> FALSE, interrupted |-> FALSE, stopped_at |-> "none",
   calls |-> <<>>, lines |-> <<>>, transactions |-> <<>>, validated |-> FALSE,
   filtered_transactions |-> <<>>,
   response |-> [raised |-> "none", status_code |-> 0, products |-> <<>>],
   product_mapping |-> NoProducts, enriched_transactions |-> <<>>,
   report_input |-> <<>>, written |-> {}]

Init ==
  /\ pc = "input"
  /\ raw_lines = <<>>
  /\ transactions = <<>>
  /\ skipped_count = 0
  /\ vf = NoCall
  /\ agg = NoAggregate
  /\ api = NoApiCall
  /\ io = NoRead
  /\ run = NoRun

\* A caller reads one more line from the file.
AddLine(l) ==
  /\ pc = "input" /\ transactions = <<>>
  /\ Len(raw_lines) < MaxLines
  /\ raw_lines' = Append(raw_lines, l)
  /\ UNCHANGED <<pc, transactions, skipped_count, vf, agg>>
  /\ UNCHANGED <<api, io, run>>

\* A caller builds the transaction list directly.
AddRecord(r) ==
  /\ pc = "input" /\ raw_lines = <<>>
  /\ Len(transactions) < MaxLen
  /\ transactions' = Append(transactions, r)
  /\ UNCHANGED <<pc, raw_lines, skipped_count, vf, agg>>
  /\ UNCHANGED <<api, io, run>>

ParseTransactions ==
  /\ pc = "input" /\ raw_lines # <<>>
  /\ LET r == parse_transactions(raw_lines)
     IN /\ transactions' = r.parsed_transactions
        /\ skipped_count' = r.skipped_count
  /\ pc' = "parsed"
  /\ UNCHANGED <<raw_lines, vf, agg>>
  /\ UNCHANGED <<api, io, run>>

ValidateAndFilter(region, min_amount, max_amount) ==
  /\ pc = "parsed" \/ (pc = "input" /\ raw_lines = <<>>)
  /\ LET r == validate_and_filter(transactions, region, min_amount, max_amount)
     IN /\ transactions' = r.transactions
        /\ vf' = [region |-> region, min_amount |-> min_amount,
                  max_amount |-> max_amount, input |-> transactions,
                  raised |-> r.raised, valid |-> r.valid,
                  invalid_count |-> r.invalid_count, summary |-> r.summary]
        /\ pc' = IF r.raised = "none" THEN "validated" ELSE "failed"
  /\ UNCHANGED <<raw_lines, skipped_count, agg>>
  /\ UNCHANGED <<api, io, run>>

\* The list an aggregate is applied to: the validated and filtered list when
\* there is one, otherwise the list as built or parsed.
AggregateInput == IF pc = "validated" THEN vf.valid ELSE transactions

CanAggregate == pc \in {"parsed", "validated"} \/ (pc = "input" /\ raw_lines = <<>>)

CalculateTotalRevenue ==
  /\ CanAggregate
  /\ agg' = [NoAggregate EXCEPT !.fn = "calculate_total_revenue",
                                !.T = AggregateInput,
                                !.validated = (pc = "validated"),
                                !.total_revenue = calculate_total_revenue(AggregateInput)]
  /\ pc' = "analysed"
  /\ UNCHANGED <<raw_lines, transactions, skipped_count, vf>>
  /\ UNCHANGED <<api, io, run>>

RegionWiseSales ==
  /\ CanAggregate
  /\ agg' = [NoAggregate EXCEPT !.fn = "region_wise_sales",
                                !.T = AggregateInput,
                                !.validated = (pc = "validated"),
                                !.region_sales = region_wise_sales(AggregateInput)]
  /\ pc' = "analysed"
  /\ UNCHANGED <<raw_lines, transactions, skipped_count, vf>>
  /\ UNCHANGED <<api, io, run>>

Next ==
  \/ \E l \in SampleLines : AddLine(l)
  \/ \E r \in SampleRecords : AddRecord(r)
  \/ ParseTransactions
  \/ \E region \in RegionArgs, min_amount \in MinAmountArgs, max_amount \in MaxAmountArgs :
       ValidateAndFilter(region, min_amount, max_amount)
  \/ CalculateTotalRevenue
  \/ RegionWiseSales

Spec == Init /\ [][Next]_vars

\* A caller builds the list handed to the aggregates.
AddSale(r) ==
  /\ pc = "input" /\ raw_lines = <<>>
  /\ Len(transactions) < MaxSales
  /\ transactions' = Append(transactions, r)
  /\ UNCHANGED <<pc, raw_lines, skipped_count, vf, agg>>
  /\ UNCHANGED <<api, io, run>>

TopSellingProducts(n) ==
  /\ CanAggregate
  /\ agg' = [NoAggregate EXCEPT !.fn = "top_selling_products",
                                !.T = AggregateInput,
                                !.validated = (pc = "validated"),
                                !.n = n,
                                !.products = top_selling_products(AggregateInput, n)]
  /\ pc' = "analysed"
  /\ UNCHANGED <<raw_lines, transactions, skipped_count, vf>>
  /\ UNCHANGED <<api, io, run>>

LowPerformingProducts(threshold) ==
  /\ CanAggregate
  /\ agg' = [NoAggregate EXCEPT !.fn = "low_performing_products",
                                !.T = AggregateInput,
                                !.validated = (pc = "validated"),
                                !.threshold = threshold,
                                !.products = low_performing_products(AggregateInput, threshold)]
  /\ pc' = "analysed"
  /\ UNCHANGED <<raw_lines, transactions, skipped_count, vf>>
  /\ UNCHANGED <<api, io, run>>

CustomerAnalysis ==
  /\ CanAggregate
  /\ agg' = [NoAggregate EXCEPT !.fn = "customer_analysis",
                                !.T = AggregateInput,
                                !.validated = (pc = "validated"),
                                !.customers = customer_analysis(AggregateInput)]
  /\ pc' = "analysed"
  /\ UNCHANGED <<raw_lines, transactions, skipped_count, vf>>
  /\ UNCHANGED <<api, io, run>>

DailySalesTrend ==
  /\ CanAggregate
  /\ agg' = [NoAggregate EXCEPT !.fn = "daily_sales_trend",
                                !.T = AggregateInput,
                                !.validated = (pc = "validated"),
                                !.daily_trend = daily_sales_trend(AggregateInput)]
  /\ pc' = "analysed"
  /\ UNCHANGED <<raw_lines, transactions, skipped_count, vf>>
  /\ UNCHANGED <<api, io, run>>

FindPeakSalesDay ==
  /\ CanAggregate
  /\ agg' = [NoAggregate EXCEPT !.fn = "find_peak_sales_day",
                                !.T = AggregateInput,
                                !.validated = (pc = "validated"),
                                !.peak_day = find_peak_sales_day(AggregateInput)]
  /\ pc' = "analysed"
  /\ UNCHANGED <<raw_lines, transactions, skipped_count, vf>>
  /\ UNCHANGED <<api, io, run>>

\* The aggregates as independent functions of one list.
AggregateNext ==
  \/ \E r \in SampleSales : AddSale(r)
  \/ CalculateTotalRevenue
  \/ RegionWiseSales
  \/ \E n \in TopCounts : TopSellingProducts(n)
  \/ \E threshold \in Thresholds : LowPerformingProducts(threshold)
  \/ CustomerAnalysis
  \/ DailySalesTrend
  \/ FindPeakSalesDay

AggregateSpec == Init /\ [][AggregateNext]_vars

----------------------------------------------------------------------------
(* Calls of utils/api_handler.py *)

ExtractNumericId(product_id) ==
  /\ api = NoApiCall
  /\ api' = [NoApiCall EXCEPT !.fn = "extract_numeric_id",
                              !.product_id = product_id,
                              !.numeric_id = extract_numeric_id(product_id)]
  /\ UNCHANGED <<pc, raw_lines, transactions, skipped_count, vf, agg, io, run>>

\* A caller appends one more transaction dict to the list it will enrich.
AddOrder(r) ==
  /\ api.fn = "none"
  /\ Len(api.T) < MaxOrders
  /\ api' = [api EXCEPT !.T = Append(@, Plain(r))]
  /\ UNCHANGED <<pc, raw_lines, transactions, skipped_count, vf, agg, io, run>>

EnrichSalesData(product_mapping) ==
  /\ api.fn = "none"
  /\ api' = [api EXCEPT !.fn = "enrich_sales_data",
                        !.product_mapping = product_mapping,
                        !.enriched = enrich_sales_data(api.T, product_mapping)]
  /\ UNCHANGED <<pc, raw_lines, transactions, skipped_count, vf, agg, io, run>>

\* The caller saves the list that enrich_sales_data returned.
SaveEnrichedData ==
  /\ api.fn = "enrich_sales_data"
  /\ api' = [api EXCEPT !.fn = "save_enriched_data",
                        !.saved = save_enriched_data(api.enriched.result)]
  /\ UNCHANGED <<pc, raw_lines, transactions, skipped_count, vf, agg, io, run>>

EnrichNext ==
  \/ \E product_id \in SampleProductIDs : ExtractNumericId(product_id)
  \/ \E r \in SampleOrders : AddOrder(r)
  \/ \E product_mapping \in SampleMappings : EnrichSalesData(product_mapping)
  \/ SaveEnrichedData

EnrichSpec == Init /\ [][EnrichNext]_vars

----------------------------------------------------------------------------
(* Calls of read_sales_data *)

\* One more line is written to the file.
WriteLine(l) ==
  /\ io.fn = "none" /\ run.pc = "idle" /\ io.file.status \in {"utf-8", "latin-1"}
  /\ Len(io.file.lines) < MaxFileLines
  /\ io' = [io EXCEPT !.file.lines = Append(@, l)]
  /\ UNCHANGED <<pc, raw_lines, transactions, skipped_count, vf, agg, api, run>>

\* The file is removed, made unreadable or saved in another encoding.
ChangeFile(status) ==
  /\ io.fn = "none" /\ run.pc = "idle" /\ io.file.status = "utf-8"
  /\ io' = [io EXCEPT !.file.status = status,
                      !.file.lines = IF status = "missing" THEN <<>> ELSE @]
  /\ UNCHANGED <<pc, raw_lines, transactions, skipped_count, vf, agg, api, run>>

ReadSalesData ==
  /\ io.fn = "none"
  /\ io' = [io EXCEPT !.fn = "read_sales_data", !.returned = read_sales_data(io.file)]
  /\ UNCHANGED <<pc, raw_lines, transactions, skipped_count, vf, agg, api, run>>

ReadNext ==
  \/ \E l \in SampleFileLines : WriteLine(l)
  \/ \E status \in FileStatuses \ {"utf-8"} : ChangeFile(status)
  \/ ReadSalesData

ReadSpec == Init /\ [][ReadNext]_vars

----------------------------------------------------------------------------
(* One execution of main() *)

\* lines 224-226: the console may or may not encode the symbols main prints,
\* and the output directory may or may not be creatable.
MainStart(console_ok, dir_ok) ==
  /\ run.pc = "idle" /\ io.fn = "none"
  /\ run' = [NoRun EXCEPT !.pc = "step1", !.console_ok = console_ok, !.dir_ok = dir_ok]
  /\ UNCHANGED <<pc, raw_lines, transactions, skipped_count, vf, agg, api, io>>

\* lines 229-234: display_progress prints a check mark; a console that
\* cannot encode it raises UnicodeEncodeError.
Step1Welcome ==
  /\ run.pc = "step1"
  /\ run' = IF run.console_ok
            THEN [run EXCEPT !.pc = "step2", !.current_step = 1]
            ELSE [run EXCEPT !.pc = "except", !.current_step = 1,
                             !.error = "UnicodeEncodeError"]
  /\ UNCHANGED <<pc, raw_lines, transactions, skipped_count, vf, agg, api, io>>

\* lines 239-265: output_dir is assigned, os.makedirs may raise, a missing
\* input file and an empty result of read_sales_data end the run.
Step2Read ==
  /\ run.pc = "step2"
  /\ IF ~run.dir_ok
     THEN /\ run' = [run EXCEPT !.pc = "except", !.current_step = 2,
                                !.output_dir = TRUE, !.error = "OSError"]
          /\ io' = io
     ELSE IF io.file.status = "missing"
     THEN /\ run' = [run EXCEPT !.pc = "finally", !.current_step = 2,
                                !.output_dir = TRUE, !.success = FALSE,
                                !.stopped_at = "exists"]
          /\ io' = io
     ELSE /\ io' = [io EXCEPT !.fn = "read_sales_data", !.returned = read_sales_data(io.file)]
          /\ run' = [run EXCEPT
                       !.pc = IF stops_if_empty(read_sales_data(io.file).result)
                              THEN "finally" ELSE "step3",
                       !.current_step = 2, !.output_dir = TRUE,
                       !.success = ~stops_if_empty(read_sales_data(io.file).result),
                       !.stopped_at = IF stops_if_empty(read_sales_data(io.file).result)
                                      THEN "read_sales_data" ELSE @,
                       !.calls = Append(@, "read_sales_data"),
                       !.lines = read_sales_data(io.file).result]
  /\ UNCHANGED <<pc, raw_lines, transactions, skipped_count, vf, agg, api>>

\* lines 270-282
Step3Parse ==
  /\ run.pc = "step3"
  /\ run' = [run EXCEPT
               !.pc = IF stops_if_empty(parse_transactions(as_text(run.lines)).parsed_transactions)
                      THEN "finally" ELSE "step4",
               !.current_step = 3,
               !.success = ~stops_if_empty(parse_transactions(as_text(run.lines)).parsed_transactions),
               !.stopped_at = IF stops_if_empty(parse_transactions(as_text(run.lines)).parsed_transactions)
                              THEN "parse_transactions" ELSE @,
               !.calls = Append(@, "parse_transactions"),
               !.transactions = parse_transactions(as_text(run.lines)).parsed_transactions]
  /\ UNCHANGED <<pc, raw_lines, transactions, skipped_count, vf, agg, api, io>>

\* lines 290-308 with the result r of validate_and_filter.
after_filter(r, run_) ==
  IF r.raised # "none"
  THEN [run_ EXCEPT !.pc = "except", !.current_step = 4, !.error = r.raised,
                    !.calls = Append(@, "validate_and_filter")]
  ELSE [run_ EXCEPT !.pc = IF stops_if_empty(r.valid) THEN "finally" ELSE "step5",
                    !.current_step = 4,
                    !.success = ~stops_if_empty(r.valid),
                    !.stopped_at = IF stops_if_empty(r.valid) THEN "validate_and_filter" ELSE @,
                    !.calls = Append(@, "validate_and_filter"),
                    !.validated = TRUE,
                    !.filtered_transactions = r.valid]

\* lines 287-308: the filters are what get_user_filters returned.
Step4Filter(filters) ==
  /\ run.pc = "step4"
  /\ run' = after_filter(validate_and_filter(run.transactions, filters[1], filters[2],
                                             filters[3]), run)
  /\ UNCHANGED <<pc, raw_lines, transactions, skipped_count, vf, agg, api, io>>

\* lines 313-351: the seven aggregates and save_analysis_results, which
\* catches its own exceptions.
Step5Analyse ==
  /\ run.pc = "step5"
  /\ run' = IF analysis_raises(run.filtered_transactions)
            THEN [run EXCEPT !.pc = "except", !.current_step = 5,
                             !.error = "AttributeError",
                             !.calls = @ \o <<"calculate_total_revenue">>]
            ELSE [run EXCEPT !.pc = "step6", !.current_step = 5,
                             !.calls = @ \o analysis_calls]
  /\ UNCHANGED <<pc, raw_lines, transactions, skipped_count, vf, agg, api, io>>

\* lines 356-366
Step6Fetch(response) ==
  /\ run.pc = "step6"
  /\ run' = [run EXCEPT
               !.pc = "step7", !.current_step = 6,
               !.response = response,
               !.calls = IF fetch_all_products(response) = <<>>
                         THEN Append(@, "fetch_all_products")
                         ELSE @ \o <<"fetch_all_products", "create_product_mapping">>,
               !.product_mapping = IF fetch_all_products(response) = <<>>
                                   THEN NoProducts
                                   ELSE create_product_mapping(fetch_all_products(response))]
  /\ UNCHANGED <<pc, raw_lines, transactions, skipped_count, vf, agg, api, io>>

\* lines 371-386: enriched_transactions is None without a mapping.
Step7Enrich ==
  /\ run.pc = "step7"
  /\ run' = IF DOMAIN run.product_mapping # {}
            THEN [run EXCEPT
                    !.pc = "step8", !.current_step = 7,
                    !.calls = Append(@, "enrich_sales_data"),
                    !.enriched_transactions =
                       enrich_sales_data(as_plain(run.filtered_transactions),
                                         run.product_mapping).result]
            ELSE [run EXCEPT !.pc = "step8", !.current_step = 7]
  /\ UNCHANGED <<pc, raw_lines, transactions, skipped_count, vf, agg, api, io>>

\* lines 391-403
Step8Save ==
  /\ run.pc = "step8"
  /\ run' = IF run.enriched_transactions # <<>>
            THEN [run EXCEPT
                    !.pc = "step9", !.current_step = 8,
                    !.calls = Append(@, "save_enriched_data"),
                    !.written = IF save_enriched_data(run.enriched_transactions).returned
                                THEN @ \cup {"enriched_sales_data.txt"} ELSE @]
            ELSE [run EXCEPT !.pc = "step9", !.current_step = 8]
  /\ UNCHANGED <<pc, raw_lines, transactions, skipped_count, vf, agg, api, io>>

\* lines 408-436: the three generators get filtered_transactions and report
\* a failure by returning False, which main only prints.
Step9Reports ==
  /\ run.pc = "step9"
  /\ run' = [run EXCEPT
               !.pc = "step10", !.current_step = 9,
               !.calls = @ \o <<"generate_sales_report", "generate_json_report",
                                "generate_executive_summary">>,
               !.report_input = run.filtered_transactions,
               !.written =
                  @ \cup (IF generate_sales_report(run.filtered_transactions)
                          THEN {"sales_report.txt"} ELSE {})
                    \cup (IF generate_json_report(run.filtered_transactions)
                          THEN {"sales_report.json"} ELSE {})
                    \cup (IF generate_executive_summary(run.filtered_transactions)
                          THEN {"executive_summary.txt"} ELSE {})]
  /\ UNCHANGED <<pc, raw_lines, transactions, skipped_count, vf, agg, api, io>>

\* lines 441-502: the summary; the question about quick insights is inside
\* its own try with a bare except.
Step10Summary ==
  /\ run.pc = "step10"
  /\ run' = [run EXCEPT !.pc = "finally", !.current_step = 10]
  /\ UNCHANGED <<pc, raw_lines, transactions, skipped_count, vf, agg, api, io>>

\* An exception no step handles (MemoryError, an OSError of a print or of a
\* file operation outside the helpers' own handlers) escapes steps 3 to 10.
MainRaise ==
  /\ run.pc \in {"step3", "step4", "step5", "step6", "step7", "step8", "step9", "step10"}
  /\ run' = [run EXCEPT !.pc = "except", !.error = "Exception"]
  /\ UNCHANGED <<pc, raw_lines, transactions, skipped_count, vf, agg, api, io>>

\* lines 504-507 and 528-530: Ctrl-C during a step; sys.exit(0) in the
\* except clause is followed by the finally clause.
MainInterrupt ==
  /\ run.pc \in {"step1", "step2", "step3", "step4", "step5", "step6", "step7", "step8",
                 "step9", "step10"}
  /\ run' = [run EXCEPT !.pc = "finally", !.interrupted = TRUE]
  /\ UNCHANGED <<pc, raw_lines, transactions, skipped_count, vf, agg, api, io>>

\* lines 509-526: `except Exception`; success becomes False only if the
\* handler reaches its last statement.
MainExcept ==
  /\ run.pc = "except"
  /\ run' = IF handler_completes(run)
            THEN [run EXCEPT !.pc = "finally", !.caught = TRUE, !.success = FALSE,
                             !.written = @ \cup {"error_log.txt"}]
            ELSE [run EXCEPT !.pc = "finally", !.caught = TRUE]
  /\ UNCHANGED <<pc, raw_lines, transactions, skipped_count, vf, agg, api, io>>

\* lines 528-530: sys.exit(0 if success else 1)
MainFinally ==
  /\ run.pc = "finally"
  /\ run' = [run EXCEPT !.pc = "exited", !.exit_status = IF run.success THEN 0 ELSE 1]
  /\ UNCHANGED <<pc, raw_lines, transactions, skipped_count, vf, agg, api, io>>

MainNext ==
  \/ \E l \in SampleFileLines : WriteLine(l)
  \/ \E status \in FileStatuses \ {"utf-8"} : ChangeFile(status)
  \/ \E console_ok, dir_ok \in BOOLEAN : MainStart(console_ok, dir_ok)
  \/ Step1Welcome
  \/ Step2Read
  \/ Step3Parse
  \/ \E filters \in UserFilters : Step4Filter(filters)
  \/ Step5Analyse
  \/ \E response \in Responses : Step6Fetch(response)
  \/ Step7Enrich
  \/ Step8Save
  \/ Step9Reports
  \/ Step10Summary
  \/ MainRaise
  \/ MainInterrupt
  \/ MainExcept
  \/ MainFinally

MainSpec == Init /\ [][MainNext]_vars

----------------------------------------------------------------------------
(* Properties of validate_and_filter *)

\* A call of validate_and_filter has been made / has returned.
Called == vf # NoCall
Returned == Called /\ vf.raised = "none"

\* The record as the caller supplied it.
Supplied(t) == [t EXCEPT !.Amount = Missing, !.ValidationError = <<>>]
SuppliedAll(ts) == [i \in 1..Len(ts) |-> Supplied(ts[i])]

\* The validation predicate as the specification states it.
PresentAndTruthy(v) ==
  \/ v.k = "str" /\ Len(v.s) > 0
  \/ v.k \in {"int", "float"} /\ v.n # 0

PositiveInteger(v) ==
  \/ v.k \in {"int", "float"} /\ v.n >= Scale
  \/ v.k = "str" /\ ParseInt(v.s).ok /\ ParseInt(v.s).n > 0

PositiveDecimal(v) ==
  \/ v.k \in {"int", "float"} /\ v.n > 0
  \/ v.k = "str" /\ ParseFloat(v.s).ok /\ ParseFloat(v.s).n > 0

MeetsPredicate(t) ==
  /\ \A i \in 1..Len(required_fields) : PresentAndTruthy(t[required_fields[i]])
  /\ t.TransactionID.k = "str" /\ Head(t.TransactionID.s) = "T"
  /\ t.ProductID.k = "str" /\ Head(t.ProductID.s) = "P"
  /\ t.CustomerID.k = "str" /\ Head(t.CustomerID.s) = "C"
  /\ PositiveInteger(t.Quantity)
  /\ PositiveDecimal(t.UnitPrice)

\* None and the empty string are "no region".
RegionGiven == vf.region.k = "str" /\ vf.region.s # <<>>
BoundGiven == vf.min_amount.k # "none" \/ vf.max_amount.k # "none"

SameRegion(t) == t.Region.k = "str" /\ Lower(t.Region.s) = Lower(vf.region.s)

\* Quantity x UnitPrice of a record that meets the predicate.
ProductOf(t) == MulN(t.Quantity.n, t.UnitPrice.n)

WithinBounds(t) ==
  /\ vf.min_amount.k = "none" \/ vf.min_amount.n <= ProductOf(t)
  /\ vf.max_amount.k = "none" \/ ProductOf(t) <= vf.max_amount.n

\* The pre-filter valid set, the set after the region stage, and after both.
ExpectedValid == SelectSeq(vf.input, MeetsPredicate)
ExpectedInRegion ==
  IF RegionGiven THEN SelectSeq(ExpectedValid, SameRegion) ELSE ExpectedValid
ExpectedFinal ==
  IF BoundGiven THEN SelectSeq(ExpectedInRegion, WithinBounds) ELSE ExpectedInRegion

\* C1: a call with no region and no amount bound returns as its valid set
\* exactly the input records that meet the validation predicate, in input
\* order, and counts every other input record in invalid_count.
C1_ValidSetIsThePredicate ==
  (Called /\ ~RegionGiven /\ ~BoundGiven) =>
    /\ vf.raised = "none"
    /\ SuppliedAll(vf.valid) = ExpectedValid
    /\ vf.invalid_count = Len(vf.input) - Len(ExpectedValid)

\* C2: validate_and_filter never raises because of one bad record: every
\* call returns, and every record that does not meet the predicate carries a
\* ValidationError message and is counted, while the others are validated.
C2_NeverRaises ==
  Called =>
    /\ vf.raised = "none"
    /\ \A i \in 1..Len(transactions) :
         ~MeetsPredicate(vf.input[i]) => transactions[i].ValidationError # <<>>
    /\ vf.invalid_count = Len(vf.input) - Len(ExpectedValid)

\* C3: a transaction whose Quantity is 0, all other fields valid, is rejected
\* and its ValidationError mentions "Quantity must be > 0".
ZeroQuantityOnly(t) ==
  /\ t.Quantity = IntV(0)
  /\ MeetsPredicate([t EXCEPT !.Quantity = IntV(1)])

C3_ZeroQuantityMessage ==
  Returned =>
    \A i \in 1..Len(transactions) :
      ZeroQuantityOnly(vf.input[i]) =>
        /\ \A j \in 1..Len(vf.valid) : Supplied(vf.valid[j]) # vf.input[i]
        /\ \E k \in 1..Len(transactions[i].ValidationError) :
             transactions[i].ValidationError[k].msg = "Quantity must be > 0"

\* C4: in every call that returns, the stages are applied in the order
\* validation, region filter, amount filter, and each filter reports what it
\* removed from the output of the stage before it; when the requested region
\* is the region of no valid record the result is empty and
\* filtered_by_region is the size of the pre-filter valid set.
C4_StagesInOrder ==
  Returned =>
    /\ vf.summary.filtered_by_region = Len(ExpectedValid) - Len(ExpectedInRegion)
    /\ vf.summary.filtered_by_amount = Len(ExpectedInRegion) - Len(ExpectedFinal)
    /\ (RegionGiven /\ ExpectedInRegion = <<>>) =>
         /\ vf.valid = <<>>
         /\ vf.summary.filtered_by_region = Len(ExpectedValid)

\* The requested region is the region of none of at least two valid records,
\* one of which is also outside the amount bounds: the region stage removes
\* them all and the amount stage nothing.
C4_Witness ==
  /\ Returned /\ RegionGiven /\ BoundGiven
  /\ Len(ExpectedValid) >= 2
  /\ \E i \in 1..Len(ExpectedValid) : ~WithinBounds(ExpectedValid[i])
  /\ vf.valid = <<>>
  /\ vf.summary.filtered_by_region = Len(ExpectedValid)
  /\ vf.summary.filtered_by_amount = 0

\* C5: in every call that returns, the returned list is exactly the records
\* that pass validation, whose Region equals the given region ignoring case
\* (if one is given) and whose amount satisfies min_amount <= amount <=
\* max_amount (for the bounds given); an amount equal to a bound is kept.
C5_ReturnedListIsExact ==
  Returned => SuppliedAll(vf.valid) = ExpectedFinal

\* A record is kept whose Region differs from the argument in case and whose
\* amount equals both bounds.
C5_Witness ==
  /\ Returned /\ RegionGiven
  /\ vf.min_amount = FloatV(2000) /\ vf.max_amount = FloatV(2000)
  /\ \E i \in 1..Len(vf.valid) :
       /\ vf.valid[i].Region.s # vf.region.s
       /\ vf.valid[i].Amount.n = 2000

\* C6: the amount_range of the summary is the minimum and maximum of
\* Quantity x UnitPrice over the records that passed validation; rejected
\* records do not influence it.
C6_AmountRangeOverValidSet ==
  (Returned /\ ExpectedValid # <<>>) =>
    /\ vf.summary.amount_range.min =
         MinN({ProductOf(ExpectedValid[i]) : i \in 1..Len(ExpectedValid)})
    /\ vf.summary.amount_range.max =
         MaxN({ProductOf(ExpectedValid[i]) : i \in 1..Len(ExpectedValid)})

----------------------------------------------------------------------------
(* Properties of parse_transactions *)

Parsed == pc = "parsed"

\* The sample lines that split into exactly 8 fields with a numeric Quantity
\* and a numeric UnitPrice, and the record each is to yield.
WellFormed(line) == line \in {LineExample, LinePlain, LineBlanks, LineZeroQty}

ExpectedExample ==
  Transaction(StrV(<<"T", "0", "0", "1">>), StrV(<<"2", "0", "2", "4", "-", "1", "2", "-", "0", "1">>),
              StrV(<<"P", "1", "0", "1">>), StrV(<<"L", "a", "p", "t", "o", "p", " ", "P", "r", "o">>),
              IntV(2), FloatV(4500000),
              StrV(<<"C", "0", "0", "1">>), StrV(<<"N", "o", "r", "t", "h">>))
ExpectedPlain ==
  Transaction(StrV(<<"T", "0", "0", "2">>), StrV(<<"2", "0", "2", "4", "-", "1", "2", "-", "0", "1">>),
              StrV(<<"P", "1", "0", "2">>), StrV(<<"M", "o", "u", "s", "e">>),
              IntV(1), FloatV(550),
              StrV(<<"C", "0", "0", "2">>), StrV(<<"S", "o", "u", "t", "h">>))
ExpectedBlanks ==
  Transaction(StrV(<<"T", "0", "0", "3">>), StrV(<<"2", "0", "2", "4", "-", "1", "2", "-", "0", "2">>),
              StrV(<<"P", "1", "0", "3">>), StrV(<<"D", "e", "s", "k", " ", "L", "a", "m", "p">>),
              IntV(-2), FloatV(1000),
              StrV(<<"C", "0", "0", "3">>), StrV(<<"n", "o", "r", "t", "h">>))
ExpectedZeroQty ==
  Transaction(StrV(<<"T", "0", "0", "8">>), StrV(<<"2", "0", "2", "4", "-", "1", "2", "-", "0", "3">>),
              StrV(<<"P", "1", "0", "8">>), StrV(<<"P", "e", "n">>),
              IntV(0), FloatV(500),
              StrV(<<"C", "0", "0", "2">>), StrV(<<"S", "o", "u", "t", "h">>))

ExpectedRecord(line) ==
  CASE line = LineExample -> ExpectedExample
    [] line = LinePlain -> ExpectedPlain
    [] line = LineBlanks -> ExpectedBlanks
    [] line = LineZeroQty -> ExpectedZeroQty

WellFormedLines == SelectSeq(raw_lines, WellFormed)

\* C7: parse_transactions returns for every sequence of lines: one record
\* per well-formed line, in input order, every other line skipped, and
\* skipped lines + returned records = input lines.
C7_OneRecordPerWellFormedLine ==
  Parsed =>
    /\ Len(transactions) = Len(WellFormedLines)
    /\ \A i \in 1..Len(transactions) :
         transactions[i].TransactionID = ExpectedRecord(WellFormedLines[i]).TransactionID
    /\ skipped_count + Len(transactions) = Len(raw_lines)

\* Lines are skipped for each reason and a line after a skipped one is kept.
C7_Witness ==
  /\ Parsed
  /\ Len(raw_lines) = MaxLines
  /\ ~WellFormed(raw_lines[1])
  /\ Len(transactions) = 1 /\ skipped_count = MaxLines - 1

Trimmed(v) ==
  v.k = "str" /\ (v.s = <<>> \/ (v.s[1] # " " /\ v.s[Len(v.s)] # " "))

CleanName(v) ==
  /\ \A i \in 1..Len(v.s) : v.s[i] # ","
  /\ \A i \in 1..(Len(v.s) - 1) : ~(v.s[i] = " " /\ v.s[i + 1] = " ")

\* C8: every returned record has its text fields trimmed, a ProductName
\* without comma or repeated blank, an integer Quantity (commas removed,
\* truncated) and a decimal UnitPrice (commas removed); the records are the
\* expected ones, the example line giving 'Laptop Pro', 2 and 45000.0.
C8_FieldsAreCleaned ==
  Parsed =>
    /\ \A i \in 1..Len(transactions) :
         /\ \A f \in {"TransactionID", "Date", "ProductID", "ProductName",
                      "CustomerID", "Region"} : Trimmed(transactions[i][f])
         /\ CleanName(transactions[i].ProductName)
         /\ transactions[i].Quantity.k = "int"
         /\ transactions[i].Quantity.n % Scale = 0
         /\ transactions[i].UnitPrice.k = "float"
    /\ transactions = [i \in 1..Len(WellFormedLines) |-> ExpectedRecord(WellFormedLines[i])]

\* The example line and the line with blanks, commas and a fraction are parsed.
C8_Witness ==
  /\ Parsed
  /\ \E i \in 1..Len(transactions) : transactions[i] = ExpectedExample
  /\ \E i \in 1..Len(transactions) : transactions[i] = ExpectedBlanks

----------------------------------------------------------------------------
(* Properties of the aggregates *)

\* A value that can be coerced to a number, and the number: a number,
\* numeric text once its commas are removed, or the default of an absent key.
Coercible(v) ==
  \/ v.k \in {"int", "float", "missing"}
  \/ v.k = "str" /\ ParseFloat(Replace(v.s, ",", <<>>)).ok

NumberOf(v) ==
  IF v.k = "str" THEN ParseFloat(Replace(v.s, ",", <<>>)).n ELSE v.n

RECURSIVE SumOfProducts(_)
SumOfProducts(ts) ==
  IF ts = <<>> THEN 0
  ELSE MulN(NumberOf(Head(ts).Quantity), NumberOf(Head(ts).UnitPrice))
       + SumOfProducts(Tail(ts))

HasNumbers(t) == Coercible(t.Quantity) /\ Coercible(t.UnitPrice)

\* C9: calculate_total_revenue(T) is the sum of Quantity x UnitPrice over
\* the records of T; a record whose Quantity or UnitPrice cannot be coerced
\* to a number is skipped and the sum over the others is returned.
C9_TotalRevenueIsTheSum ==
  agg.fn = "calculate_total_revenue" =>
    agg.total_revenue = SumOfProducts(SelectSeq(agg.T, HasNumbers))

\* A record that cannot be coerced precedes one that counts.
C9_Witness ==
  /\ agg.fn = "calculate_total_revenue"
  /\ Len(agg.T) = MaxLen
  /\ ~HasNumbers(agg.T[1])
  /\ HasNumbers(agg.T[MaxLen])
  /\ agg.total_revenue = 2000

RECURSIVE SumPercentage(_)
SumPercentage(items) ==
  IF items = <<>> THEN 0 ELSE Head(items).percentage + SumPercentage(Tail(items))

RECURSIVE SumCount(_)
SumCount(items) ==
  IF items = <<>> THEN 0 ELSE Head(items).transaction_count + SumCount(Tail(items))

\* C10: for every non-empty list T accepted by the validator the
\* percentages of region_wise_sales(T) sum to 100 within 0.1 and the
\* transaction counts sum to len(T).
C10_PercentagesAndCounts ==
  (agg.fn = "region_wise_sales" /\ agg.validated /\ agg.T # <<>>) =>
    /\ agg.region_sales.raised = "none"
    /\ SumPercentage(agg.region_sales.result) >= 100 * Scale - 10
    /\ SumPercentage(agg.region_sales.result) <= 100 * Scale + 10
    /\ SumCount(agg.region_sales.result) = Len(agg.T)

----------------------------------------------------------------------------
(* Properties of the product, customer and daily aggregates *)

\* The call recorded in agg returned.
ProductsReturned(fn) == agg.fn = fn /\ agg.products.raised = "none"

\* C11: for every list T and every count n >= 0, top_selling_products(T, n)
\* returns at most n entries, and the entries are non-increasing in total
\* quantity.
C11_AtMostNNonIncreasing ==
  ProductsReturned("top_selling_products") =>
    /\ Len(agg.products.result) <= agg.n
    /\ \A i \in 1..(Len(agg.products.result) - 1) :
         agg.products.result[i].total_quantity
           >= agg.products.result[i + 1].total_quantity

\* Three records of two products, the product met second having the larger
\* total: n = 1 cuts the list to that product.
C11_Witness ==
  /\ ProductsReturned("top_selling_products")
  /\ agg.T = <<SaleLaptop, SaleMouse, SaleMouseOne>>
  /\ agg.n = 1
  /\ Len(agg.products.result) = 1
  /\ agg.products.result[1].name = s_Mouse
  /\ agg.products.result[1].total_quantity = 3 * Scale

CustomersReturned == agg.fn = "customer_analysis" /\ agg.customers.raised = "none"

\* The text of a key field with the blanks around it removed.
KeyOf(v) == IF v.k = "str" THEN Strip(v.s) ELSE <<>>

\* A record that counts for a customer: CustomerID and ProductName are not
\* blank and Quantity x UnitPrice is a number.
IsPurchase(t) ==
  KeyOf(t.CustomerID) # <<>> /\ KeyOf(t.ProductName) # <<>> /\ HasNumbers(t)

PurchaseOf(t, customer_id) == IsPurchase(t) /\ KeyOf(t.CustomerID) = customer_id

PurchasesOf(ts, customer_id) ==
  SelectSeq(ts, LAMBDA t : PurchaseOf(t, customer_id))

\* avg is total / count to the nearest hundredth.
NearestQuotient(avg, total, count) ==
  2 * Magnitude(avg * count - total) <= count

CustomerTotals(entry, purchases) ==
  /\ purchases # <<>>
  /\ entry.total_spent = SumOfProducts(purchases)
  /\ entry.purchase_count = Len(purchases)
  /\ NearestQuotient(entry.avg_order_value, entry.total_spent, entry.purchase_count)

\* C12: for every customer in customer_analysis(T), total_spent is the sum of
\* Quantity x UnitPrice and purchase_count the number of that customer's
\* records, records with a blank CustomerID or blank ProductName excluded, and
\* avg_order_value is total_spent / purchase_count rounded to 2 decimals;
\* every customer with such a record has exactly one entry.
C12_CustomerTotalsAndAverage ==
  CustomersReturned =>
    /\ \A i \in 1..Len(agg.customers.result) :
         CustomerTotals(agg.customers.result[i],
                        PurchasesOf(agg.T, agg.customers.result[i].customer_id))
    /\ \A i, j \in 1..Len(agg.customers.result) :
         agg.customers.result[i].customer_id = agg.customers.result[j].customer_id
           => i = j
    /\ \A k \in 1..Len(agg.T) :
         IsPurchase(agg.T[k]) =>
           \E i \in 1..Len(agg.customers.result) :
             agg.customers.result[i].customer_id = KeyOf(agg.T[k].CustomerID)

\* Three purchases of one customer worth 50.00: the average 16.666... is
\* returned as 16.67.
C12_Witness ==
  /\ CustomersReturned
  /\ agg.T = <<SaleText, SaleText, SaleMouse>>
  /\ Len(agg.customers.result) = 1
  /\ agg.customers.result[1].customer_id = s_C002
  /\ agg.customers.result[1].total_spent = 5000
  /\ agg.customers.result[1].purchase_count = 3
  /\ agg.customers.result[1].avg_order_value = 1667

DailyReturned == agg.fn = "daily_sales_trend" /\ agg.daily_trend.raised = "none"

\* A record that counts for a day: its Date is not blank and
\* Quantity x UnitPrice is a number.
IsSale(t) == KeyOf(t.Date) # <<>> /\ HasNumbers(t)

SaleOn(t, date) == IsSale(t) /\ KeyOf(t.Date) = date

SalesOn(ts, date) == SelectSeq(ts, LAMBDA t : SaleOn(t, date))

CustomersOf(sales) ==
  {KeyOf(sales[i].CustomerID) : i \in 1..Len(sales)} \ {<<>>}

DayTotals(entry, sales) ==
  /\ sales # <<>>
  /\ entry.revenue = SumOfProducts(sales)
  /\ entry.transaction_count = Len(sales)
  /\ entry.unique_customers = Cardinality(CustomersOf(sales))

\* C13: daily_sales_trend(T) has one entry per distinct non-blank Date in T
\* holding the summed revenue, the number of that date's records and the
\* number of distinct non-blank CustomerIDs on that date, and its keys
\* iterate in ascending lexicographic order whatever the order of T.
C13_DailyTotalsInDateOrder ==
  DailyReturned =>
    /\ \A i \in 1..Len(agg.daily_trend.result) :
         DayTotals(agg.daily_trend.result[i],
                   SalesOn(agg.T, agg.daily_trend.result[i].date))
    /\ \A i \in 1..(Len(agg.daily_trend.result) - 1) :
         StrLess(agg.daily_trend.result[i].date, agg.daily_trend.result[i + 1].date)
    /\ \A k \in 1..Len(agg.T) :
         IsSale(agg.T[k]) =>
           \E i \in 1..Len(agg.daily_trend.result) :
             agg.daily_trend.result[i].date = KeyOf(agg.T[k].Date)

\* The later date comes first in T and second in the result; the earlier date
\* has two records of one customer.
C13_Witness ==
  /\ DailyReturned
  /\ agg.T = <<SaleLaptop, SaleMouse, SaleText>>
  /\ Len(agg.daily_trend.result) = 2
  /\ agg.daily_trend.result[1].date = s_date
  /\ agg.daily_trend.result[1].revenue = 3000
  /\ agg.daily_trend.result[1].transaction_count = 2
  /\ agg.daily_trend.result[1].unique_customers = 1
  /\ agg.daily_trend.result[2].date = s_date2

PeakReturned == agg.fn = "find_peak_sales_day" /\ agg.peak_day.raised = "none"

\* Entry i of the trend has the largest revenue and is the first to have it.
FirstMaximum(trend, i) ==
  /\ \A j \in 1..Len(trend) : trend[j].revenue <= trend[i].revenue
  /\ \A j \in 1..(i - 1) : trend[j].revenue < trend[i].revenue

PeakIs(peak, entry) ==
  /\ peak.date = entry.date
  /\ peak.revenue = entry.revenue
  /\ peak.transaction_count = entry.transaction_count

PeakOfTrend(peak, trend) ==
  IF trend = <<>> THEN peak = [date |-> <<>>, revenue |-> 0, transaction_count |-> 0]
  ELSE \E i \in 1..Len(trend) : FirstMaximum(trend, i) /\ PeakIs(peak, trend[i])

\* C14: find_peak_sales_day(T) returns the (date, revenue, transaction_count)
\* of the daily_sales_trend(T) entry with maximum revenue; when several dates
\* share the maximum it returns the first one in the iteration order of
\* daily_sales_trend (the earliest date); when T has no dated record it
\* returns ('', 0, 0).
C14_PeakIsFirstMaximum ==
  PeakReturned => PeakOfTrend(agg.peak_day.result, daily_sales_trend(agg.T).result)

\* Two dates with the same revenue, the later one first in T: the earlier
\* date is the peak.
C14_Witness ==
  /\ PeakReturned
  /\ agg.T = <<SaleLaptop, SaleText>>
  /\ Len(daily_sales_trend(agg.T).result) = 2
  /\ agg.peak_day.result.date = s_date
  /\ agg.peak_day.result.revenue = 2000
  /\ agg.peak_day.result.transaction_count = 1

\* The items of a result list as a set.
ItemsOf(items) == {items[i] : i \in 1..Len(items)}

\* Every product group of T, as top_selling_products returns them when n is
\* not smaller than their number.
AllProductGroups(ts) == ItemsOf(top_selling_products(ts, Len(ts)).result)

\* C15: low_performing_products(T, threshold) returns exactly the product
\* groups (same grouping and totals as top_selling_products over all
\* products) whose total quantity is strictly less than threshold, no
\* others, sorted by total quantity ascending; a product whose total quantity
\* equals threshold is not returned.
C15_LowPerformersAreExact ==
  ProductsReturned("low_performing_products") =>
    /\ ItemsOf(agg.products.result)
         = {e \in AllProductGroups(agg.T) : e.total_quantity < agg.threshold * Scale}
    /\ Cardinality(ItemsOf(agg.products.result)) = Len(agg.products.result)
    /\ \A i \in 1..(Len(agg.products.result) - 1) :
         agg.products.result[i].total_quantity
           <= agg.products.result[i + 1].total_quantity

\* Threshold 2: the product sold twice is left out, the product sold once is
\* returned.
C15_Witness ==
  /\ ProductsReturned("low_performing_products")
  /\ agg.threshold = 2
  /\ agg.T = <<SaleLaptop, SaleMouseOne>>
  /\ Len(agg.products.result) = 1
  /\ agg.products.result[1].name = s_Mouse
  /\ agg.products.result[1].total_quantity = 1 * Scale
  /\ \E e \in AllProductGroups(agg.T) :
       e.name = s_Laptop /\ e.total_quantity = 2 * Scale

RegionsReturned == agg.fn = "region_wise_sales" /\ agg.region_sales.raised = "none"

\* A record that counts for a region: its Region is not blank and
\* Quantity x UnitPrice is a number.
IsRegionSale(t) == KeyOf(t.Region) # <<>> /\ HasNumbers(t)

SaleIn(t, region) == IsRegionSale(t) /\ KeyOf(t.Region) = region

SalesIn(ts, region) == SelectSeq(ts, LAMBDA t : SaleIn(t, region))

\* total / whole x 100 rounded to 2 decimals, and 0 when the whole is 0.
ShareOf(total, whole) ==
  IF whole = 0 THEN 0
  ELSE IF whole > 0 THEN Percentage(total, whole)
  ELSE Percentage(-total, -whole)

RegionTotals(entry, sales, whole) ==
  /\ sales # <<>>
  /\ entry.total_sales = SumOfProducts(sales)
  /\ entry.percentage = ShareOf(entry.total_sales, whole)

\* C16: region_wise_sales(T) groups by Region with blank regions excluded,
\* gives each region percentage = its total / sum of all region totals x 100
\* rounded to 2 decimals (0 for every region when the overall total is 0),
\* and its entries iterate in non-increasing order of total_sales.
C16_RegionSharesInSalesOrder ==
  RegionsReturned =>
    /\ \A i \in 1..Len(agg.region_sales.result) :
         RegionTotals(agg.region_sales.result[i],
                      SalesIn(agg.T, agg.region_sales.result[i].region),
                      SumOfProducts(SelectSeq(agg.T, IsRegionSale)))
    /\ \A i, j \in 1..Len(agg.region_sales.result) :
         agg.region_sales.result[i].region = agg.region_sales.result[j].region
           => i = j
    /\ \A k \in 1..Len(agg.T) :
         IsRegionSale(agg.T[k]) =>
           \E i \in 1..Len(agg.region_sales.result) :
             agg.region_sales.result[i].region = KeyOf(agg.T[k].Region)
    /\ \A i \in 1..(Len(agg.region_sales.result) - 1) :
         agg.region_sales.result[i].total_sales
           >= agg.region_sales.result[i + 1].total_sales

\* A record that counts for a product: its ProductName is not blank and its
\* Quantity and UnitPrice are numbers.
IsProductSale(t) == KeyOf(t.ProductName) # <<>> /\ HasNumbers(t)

ProductSale(t, name) == IsProductSale(t) /\ KeyOf(t.ProductName) = name

RECURSIVE SumOfQuantities(_)
SumOfQuantities(ts) ==
  IF ts = <<>> THEN 0
  ELSE NumberOf(Head(ts).Quantity) + SumOfQuantities(Tail(ts))

GroupOf(name, sales) ==
  [name |-> name, total_quantity |-> SumOfQuantities(sales),
   total_revenue |-> SumOfProducts(sales)]

GroupsNamed(ts, names) ==
  [i \in 1..Len(names) |->
     GroupOf(names[i], SelectSeq(ts, LAMBDA t : ProductSale(t, names[i])))]

NamesOf(sales) == [i \in 1..Len(sales) |-> KeyOf(sales[i].ProductName)]

\* The product groups of the counting records, in the order in which the
\* products are first encountered.
ProductGroups(ts) == GroupsNamed(ts, FirstSeen(NamesOf(SelectSeq(ts, IsProductSale))))

\* Group i comes before group j when sorted by total quantity descending
\* with a stable sort.
ComesBefore(groups, i, j) ==
  \/ groups[i].total_quantity > groups[j].total_quantity
  \/ groups[i].total_quantity = groups[j].total_quantity /\ i < j

\* The place of group i in the sorted list.
PlaceOf(groups, i) ==
  1 + Cardinality({j \in 1..Len(groups) : ComesBefore(groups, j, i)})

FirstOfSorted(result, groups, n) ==
  /\ Len(result) = (IF n < Len(groups) THEN n ELSE Len(groups))
  /\ \A i \in 1..Len(groups) :
       PlaceOf(groups, i) <= n => result[PlaceOf(groups, i)] = groups[i]

\* C17: top_selling_products(T, n) is the first n entries of the product
\* groups (grouped by non-blank ProductName, each with summed quantity and
\* revenue) sorted by total quantity descending with a stable sort, so two
\* products with equal total quantity appear in the order in which they were
\* first encountered in T.
C17_FirstNOfStableSortedGroups ==
  ProductsReturned("top_selling_products") =>
    FirstOfSorted(agg.products.result, ProductGroups(agg.T), agg.n)

ProductNamesOf(sales) == {KeyOf(sales[i].ProductName) : i \in 1..Len(sales)}

\* The list holds the names of the set, each once, in ascending order.
SortedListOf(names, list) ==
  /\ {list[i] : i \in 1..Len(list)} = names
  /\ \A i \in 1..(Len(list) - 1) : StrLess(list[i], list[i + 1])

\* C18: in customer_analysis(T) every customer's products_bought is the list
\* of that customer's distinct product names in alphabetical order with no
\* duplicates, and the customers iterate in non-increasing order of
\* total_spent.
C18_ProductsSortedCustomersBySpent ==
  CustomersReturned =>
    /\ \A i \in 1..Len(agg.customers.result) :
         SortedListOf(ProductNamesOf(PurchasesOf(agg.T, agg.customers.result[i].customer_id)),
                      agg.customers.result[i].products_bought)
    /\ \A i \in 1..(Len(agg.customers.result) - 1) :
         agg.customers.result[i].total_spent >= agg.customers.result[i + 1].total_spent

\* The customer met first spends less and comes second; the other customer
\* bought Mouse before Laptop and has them listed Laptop, Mouse.
C18_Witness ==
  /\ CustomersReturned
  /\ agg.T = <<SaleMouseOne, SaleMouse, SaleText>>
  /\ Len(agg.customers.result) = 2
  /\ agg.customers.result[1].customer_id = s_C002
  /\ agg.customers.result[1].total_spent = 3000
  /\ agg.customers.result[1].products_bought = <<s_Laptop, s_Mouse>>
  /\ agg.customers.result[2].customer_id = s_C001
  /\ agg.customers.result[2].total_spent = 500

\* C19: in top_selling_products and low_performing_products a record whose
\* Quantity or UnitPrice cannot be coerced to a number is skipped from the
\* aggregate as a whole: the result equals the result computed on the input
\* with that record removed (the record adds no product entry, no quantity
\* and no revenue).
C19_UncoercibleRecordIsSkippedWhole ==
  /\ ProductsReturned("top_selling_products") =>
       agg.products.result
         = top_selling_products(SelectSeq(agg.T, HasNumbers), agg.n).result
  /\ ProductsReturned("low_performing_products") =>
       agg.products.result
         = low_performing_products(SelectSeq(agg.T, HasNumbers), agg.threshold).result

\* What the call recorded in agg raised; calculate_total_revenue has no
\* statement that can raise outside its try block.
RaisedBy(a) ==
  CASE a.fn = "region_wise_sales" -> a.region_sales.raised
    [] a.fn \in {"top_selling_products", "low_performing_products"} -> a.products.raised
    [] a.fn = "customer_analysis" -> a.customers.raised
    [] a.fn = "daily_sales_trend" -> a.daily_trend.raised
    [] a.fn = "find_peak_sales_day" -> a.peak_day.raised
    [] OTHER -> "none"

\* C20: no single bad record terminates an aggregate: for every input list,
\* including records with a missing, null or non-text Region, ProductName,
\* CustomerID or Date or a non-numeric Quantity or UnitPrice, each of
\* calculate_total_revenue, region_wise_sales, top_selling_products,
\* customer_analysis, daily_sales_trend, find_peak_sales_day and
\* low_performing_products returns a result computed from the remaining
\* records without raising.
C20_NoAggregateRaises == RaisedBy(agg) = "none"

----------------------------------------------------------------------------
(* Properties of extract_numeric_id, enrich_sales_data, save_enriched_data *)

ExtractCalled == api.fn = "extract_numeric_id"

HasDigit(s) == \E i \in 1..Len(s) : s[i] \in Digits

\* The number of 'P' and 'p' at the start of the text.
LeadingPs(s) ==
  CHOOSE k \in 0..Len(s) :
    /\ \A i \in 1..k : s[i] \in {"P", "p"}
    /\ (k = Len(s) \/ s[k + 1] \notin {"P", "p"})

Remainder(s) == SubSeq(s, LeadingPs(s) + 1, Len(s))

Unsigned(t) == IF t # <<>> /\ t[1] = "-" THEN SubSeq(t, 2, Len(t)) ELSE t

\* The text is an integer: digits, with an optional sign and blanks around.
IsIntegerText(t) ==
  Unsigned(Strip(t)) # <<>> /\ \A i \in 1..Len(Unsigned(Strip(t))) : Unsigned(Strip(t))[i] \in Digits

RECURSIVE ValueOfDigits(_)
ValueOfDigits(d) ==
  IF d = <<>> THEN 0
  ELSE DigitVal(Head(d)) * 10 ^ (Len(d) - 1) + ValueOfDigits(Tail(d))

IntegerOf(t) ==
  IF Strip(t)[1] = "-" THEN -ValueOfDigits(Unsigned(Strip(t)))
  ELSE ValueOfDigits(Strip(t))

\* s[i..j] is the first run of digits of s.
IsFirstRun(s, i, j) ==
  /\ \A k \in 1..(i - 1) : s[k] \notin Digits
  /\ \A k \in i..j : s[k] \in Digits
  /\ (j = Len(s) \/ s[j + 1] \notin Digits)

ExpectedId(s) ==
  IF IsIntegerText(Remainder(s)) THEN IntegerOf(Remainder(s))
  ELSE LET i == CHOOSE i \in 1..Len(s) : \E j \in i..Len(s) : IsFirstRun(s, i, j)
       IN ValueOfDigits(SubSeq(s, i, CHOOSE j \in i..Len(s) : IsFirstRun(s, i, j)))

ExtractExample(text, id) == api.product_id = StrV(text) => api.numeric_id = id

\* C21: extract_numeric_id(code) strips leading 'P'/'p' and returns the
\* remainder parsed as an integer; if that fails it returns the first run of
\* digits found anywhere in the string; it returns null when the string has no
\* digit, is empty or is not a string: 'P101' gives 101, 'p5' gives 5,
\* 'P101A' gives 101, '101P' gives 101, 'ABC' and '' give null.
C21_ExtractNumericId ==
  ExtractCalled =>
    /\ IF api.product_id.k # "str" \/ ~HasDigit(api.product_id.s)
       THEN api.numeric_id = None
       ELSE api.numeric_id = IntV(ExpectedId(api.product_id.s))
    /\ ExtractExample(s_P101, IntV(101))
    /\ ExtractExample(s_p5, IntV(5))
    /\ ExtractExample(s_P101A, IntV(101))
    /\ ExtractExample(s_101P, IntV(101))
    /\ ExtractExample(s_ABC, None)
    /\ ExtractExample(<<>>, None)

\* The remainder 'A1B22' is not an integer: the first run of digits, 1, is
\* returned.
C21_Witness ==
  /\ ExtractCalled
  /\ api.product_id = StrV(s_A1B22)
  /\ api.numeric_id = IntV(1)

EnrichReturned == api.fn = "enrich_sales_data"

\* The numeric id extracted from the ProductID of input record i.
IdOf(i) == extract_numeric_id(product_id_of(api.T[i]))

\* The id of input record i is not null and is a key of the mapping (whose
\* value is a dict).
HasEntry(i) ==
  /\ IdOf(i) # None
  /\ (IdOf(i).n \div Scale) \in DOMAIN api.product_mapping
  /\ api.product_mapping[IdOf(i).n \div Scale].is_dict

CarriesEntry(fields, entry) ==
  /\ fields.API_Category = entry.category
  /\ fields.API_Brand = entry.brand
  /\ fields.API_Rating = entry.rating

\* C22: for every transaction and every non-empty product_mapping,
\* enrich_sales_data sets API_Match to true exactly when the numeric id
\* extracted from ProductID is non-null and is a key of product_mapping, and
\* then API_Category, API_Brand and API_Rating are that entry's category,
\* brand and rating; this holds for every integer id that can be a key,
\* including 0.
C22_MatchIffIdIsAKey ==
  (EnrichReturned /\ DOMAIN api.product_mapping # {}) =>
    \A i \in 1..Len(api.T) :
      /\ (api.enriched.result[i].api.API_Match = BoolV(TRUE)) <=> HasEntry(i)
      /\ HasEntry(i) =>
           CarriesEntry(api.enriched.result[i].api,
                        api.product_mapping[IdOf(i).n \div Scale])

HasAllApiFields(fields) ==
  \A f \in {"API_Category", "API_Brand", "API_Rating", "API_Match"} :
    fields[f].k # "missing"

NoMatchIsNull(fields) ==
  fields.API_Match = BoolV(FALSE) =>
    fields.API_Category = None /\ fields.API_Brand = None /\ fields.API_Rating = None

\* C23: enrich_sales_data never raises for a single record: for every
\* transaction list and mapping the result has the same length and order as
\* the input, every output record carries all four fields API_Category,
\* API_Brand, API_Rating and API_Match, and every record with API_Match
\* false (miss, null id or per-record error) has the other three fields null.
C23_EveryRecordIsReturnedWithApiFields ==
  EnrichReturned =>
    /\ Len(api.enriched.result) = Len(api.T)
    /\ \A i \in 1..Len(api.T) :
         /\ api.enriched.result[i].base = api.T[i].base
         /\ HasAllApiFields(api.enriched.result[i].api)
         /\ api.enriched.result[i].api.API_Match \in {BoolV(TRUE), BoolV(FALSE)}
         /\ NoMatchIsNull(api.enriched.result[i].api)

\* The mapping value of the first record's id is not a dict (the error of one
\* record), the second record is a hit: both are returned, in order.
C23_Witness ==
  /\ EnrichReturned
  /\ api.T = <<Plain(OrderLaptop), Plain(OrderFive)>>
  /\ api.product_mapping = (101 :> NotADict) @@ (5 :> InfoLaptops)
  /\ Len(api.enriched.result) = 2
  /\ api.enriched.result[1].api = miss_fields
  /\ api.enriched.result[2].api.API_Match = BoolV(TRUE)

SaveReturned == api.fn = "save_enriched_data" /\ api.saved.returned

EnrichedColumns ==
  <<"TransactionID", "Date", "ProductID", "ProductName", "Quantity", "UnitPrice",
    "CustomerID", "Region", "API_Category", "API_Brand", "API_Rating", "API_Match">>

\* The value of a field as the file is to hold it: null as the empty string,
\* a boolean as 'True' or 'False', a number as its decimal text, text as it is.
WrittenValue(v) ==
  CASE v.k \in {"missing", "none"} -> <<>>
    [] v.k = "bool" -> IF v = BoolV(TRUE) THEN <<"T", "r", "u", "e">>
                       ELSE <<"F", "a", "l", "s", "e">>
    [] v.k = "str" -> v.s
    [] OTHER -> NumberText(v)

ValuesOf(d) ==
  [j \in 1..Len(EnrichedColumns) |-> WrittenValue(field_of(d, EnrichedColumns[j]))]

\* C24: round trip of the enriched file: for every list of enriched
\* transactions, each data line written by save_enriched_data, split on '|',
\* yields exactly the 12 header fields in header order with the same values
\* as the record (null written as the empty string, booleans as
\* 'True'/'False'), one line per record in input order.
C24_SavedLinesSplitBack ==
  SaveReturned =>
    /\ Len(api.saved.lines) = Len(api.enriched.result)
    /\ \A i \in 1..Len(api.saved.lines) :
         Split(api.saved.lines[i], "|") = ValuesOf(api.enriched.result[i])

\* C30: enrich_sales_data works on copies and leaves its input unchanged: for
\* every transaction list and every product_mapping, including the empty
\* mapping, no input record gains an API_* field and the returned records are
\* distinct objects from the input records.
C30_InputIsLeftUnchanged ==
  EnrichReturned =>
    /\ api.enriched.input_after = api.T
    /\ \A i \in 1..Len(api.enriched.shared) : ~api.enriched.shared[i]
    /\ ~api.enriched.same_list

----------------------------------------------------------------------------
(* Properties of read_sales_data *)

ReadReturned == io.fn = "read_sales_data"

\* Nothing can be read: no file, no permission, or no line.
NothingToRead(file) ==
  file.status \in {"missing", "unreadable"} \/ file.lines = <<>>

TrimmedLines(lines) == [i \in 1..Len(lines) |-> Strip(lines[i])]

NonBlankAfterFirst(lines) ==
  SelectSeq(TrimmedLines(SubSeq(lines, 2, Len(lines))), LAMBDA l : l # <<>>)

\* C25: read_sales_data never raises to its caller: when the file is missing,
\* empty or unreadable in every tried encoding it returns an empty list;
\* otherwise it returns the non-blank lines after the first (header) line,
\* trimmed, in file order.
C25_ReadReturnsDataLines ==
  ReadReturned =>
    /\ io.returned.raised = "none"
    /\ io.returned.result = (IF NothingToRead(io.file) THEN <<>>
                             ELSE NonBlankAfterFirst(io.file.lines))

\* A file that is not UTF-8, with a header, a padded data line and a blank
\* line: the data line comes back trimmed.
C25_Witness ==
  /\ ReadReturned
  /\ io.file.status = "latin-1"
  /\ io.file.lines = <<FileHeader, LineBlanks.s, <<" ", " ">> >>
  /\ io.returned.result = <<Strip(LineBlanks.s)>>

----------------------------------------------------------------------------
(* Properties of the summary of validate_and_filter *)

\* C29: in every call of validate_and_filter that returns, for every input
\* list and every combination of filters, total_input = invalid +
\* filtered_by_region + filtered_by_amount + final_count, the returned invalid
\* count equals the summary's invalid, and final_count is the length of the
\* returned list.
C29_SummaryAddsUp ==
  Returned =>
    /\ vf.summary.total_input = vf.summary.invalid + vf.summary.filtered_by_region
                                + vf.summary.filtered_by_amount + vf.summary.final_count
    /\ vf.summary.total_input = Len(vf.input)
    /\ vf.invalid_count = vf.summary.invalid
    /\ vf.summary.final_count = Len(vf.valid)

\* A call with a region and a bound on two valid records: the region filter
\* removes one, the amount filter the other, and nothing is returned.
C29_Witness ==
  /\ Returned /\ RegionGiven /\ BoundGiven
  /\ vf.summary.total_input = 2 /\ vf.summary.invalid = 0
  /\ vf.summary.filtered_by_region = 1
  /\ vf.summary.filtered_by_amount = 1
  /\ vf.summary.final_count = 0 /\ vf.valid = <<>>

----------------------------------------------------------------------------
(* Properties of main *)

Exited == run.pc = "exited"

WasCalled(name) == \E i \in 1..Len(run.calls) : run.calls[i] = name

\* The lookup was made and failed: requests.get raised (connection error,
\* timeout) or the response was not a 200.
LookupFailed ==
  /\ WasCalled("fetch_all_products")
  /\ run.response.raised # "none" \/ run.response.status_code # 200

\* No exception escaped a step and the user did not interrupt the run.
Undisturbed == run.error = "none" /\ ~run.interrupted

ReportFiles == {"sales_report.txt", "sales_report.json", "executive_summary.txt"}

ReportCalls ==
  {"generate_sales_report", "generate_json_report", "generate_executive_summary"}

\* C26: whenever the external product lookup fails (connection error,
\* timeout, non-200 response), fetch_all_products yields an empty list, the
\* run continues without enrichment, the text, JSON and executive-summary
\* reports are generated from the validated transactions, and the process
\* exits with status 0.
C26_FailedLookupStillReports ==
  (Exited /\ LookupFailed /\ Undisturbed) =>
    /\ fetch_all_products(run.response) = <<>>
    /\ DOMAIN run.product_mapping = {}
    /\ ~WasCalled("enrich_sales_data") /\ run.enriched_transactions = <<>>
    /\ \A name \in ReportCalls : WasCalled(name)
    /\ run.report_input = run.filtered_transactions
    /\ ReportFiles \subseteq run.written
    /\ run.exit_status = 0

\* The part of C26 the code keeps: after a failed lookup the run goes on
\* without enrichment, calls the three generators with the validated
\* transactions, writes the JSON report and the executive summary, and
\* exits with status 0.
FailedLookupDegrades ==
  (Exited /\ LookupFailed /\ Undisturbed) =>
    /\ fetch_all_products(run.response) = <<>>
    /\ DOMAIN run.product_mapping = {}
    /\ ~WasCalled("enrich_sales_data") /\ run.enriched_transactions = <<>>
    /\ \A name \in ReportCalls : WasCalled(name)
    /\ run.report_input = run.filtered_transactions
    /\ {"sales_report.json", "executive_summary.txt"} \subseteq run.written
    /\ run.exit_status = 0

FailedLookupExited == Exited /\ LookupFailed /\ Undisturbed

\* C27: every unexpected error raised at any step of main is caught by the
\* outermost handler and the process then exits with a non-zero status: no
\* run in which an unexpected error occurred ends with exit status 0.
C27_ErrorMeansNonZeroExit ==
  (Exited /\ run.error # "none") => (run.caught /\ run.exit_status # 0)

\* The part of C27 the code keeps: the error is caught, and the status is
\* non-zero whenever the handler itself runs to its end.
ErrorIsCaught ==
  (Exited /\ run.error # "none") =>
    /\ run.caught
    /\ handler_completes(run) => (run.exit_status = 1 /\ "error_log.txt" \in run.written)

ErrorExitedZero == Exited /\ run.error # "none" /\ run.exit_status = 0

\* The place of a call in the order read, parse, validate/filter,
\* aggregates, external lookup (with the enrichment made from it), reports.
StageOf(name) ==
  CASE name = "read_sales_data" -> 1
    [] name = "parse_transactions" -> 2
    [] name = "validate_and_filter" -> 3
    [] name \in {analysis_calls[i] : i \in 1..Len(analysis_calls)} -> 4
    [] name \in {"fetch_all_products", "create_product_mapping", "enrich_sales_data",
                 "save_enriched_data"} -> 5
    [] name \in ReportCalls -> 6

StagesCalled == {StageOf(run.calls[i]) : i \in 1..Len(run.calls)}

\* Reading, parsing or validation has produced nothing.
YieldedNothing ==
  \/ run.stopped_at = "exists"
  \/ WasCalled("read_sales_data") /\ run.lines = <<>>
  \/ WasCalled("parse_transactions") /\ run.transactions = <<>>
  \/ run.validated /\ run.filtered_transactions = <<>>

StoppedAfterFilter ==
  /\ Exited /\ run.exit_status = 1 /\ run.validated
  /\ run.transactions # <<>> /\ run.filtered_transactions = <<>>

====
